---- MODULE Spec2Model ----
(***************************************************************************)
(* Streak Club: the streak engine (applyCheckInWithMetadata), the          *)
(* generation-fenced user state store, the aggregate stats record, the     *)
(* leaderboard index and the handlers built on them, modelled from         *)
(* src/server/core/streak.ts, the stats module and src/server/routes/api.ts*)
(***************************************************************************)
EXTENDS Integers, Sequences, FiniteSets, TLC

(***************************************************************************)
(* Bounds of the model                                                     *)
(***************************************************************************)
\* Largest UTC day number a check-in of the engine specification uses.
MaxDay == 22

(***************************************************************************)
(* Program constants                                                       *)
(***************************************************************************)
MAX_FREEZE_TOKENS == 2

BADGE_MILESTONES ==
  << [streak |-> 7,   badge |-> "Committed"],
     [streak |-> 30,  badge |-> "Consistent"],
     [streak |-> 90,  badge |-> "Disciplined"],
     [streak |-> 180, badge |-> "Unstoppable"],
     [streak |-> 365, badge |-> "Legend"] >>

\* Privacy = 'public' | 'private'
Privacy == {"public", "private"}

\* `null` of a `number | null` field; a day that is set is the 1-tuple <<d>>.
Null == <<>>

(***************************************************************************)
(* Pure helpers                                                            *)
(***************************************************************************)
\* Math.max
Max(a, b) == IF a >= b THEN a ELSE b

\* Math.min
Min(a, b) == IF a <= b THEN a ELSE b

\* Array.prototype.includes on a list
includes(list, x) == \E i \in 1..Len(list) : list[i] = x

\* BADGE_MILESTONES.find((entry) => entry.streak === currentStreak)?.badge ?? null
milestoneBadgeOf(currentStreak) ==
  IF \E i \in 1..Len(BADGE_MILESTONES) : BADGE_MILESTONES[i].streak = currentStreak
  THEN LET i == CHOOSE j \in 1..Len(BADGE_MILESTONES) :
                  /\ BADGE_MILESTONES[j].streak = currentStreak
                  /\ \A k \in 1..(j - 1) : BADGE_MILESTONES[k].streak # currentStreak
       IN  <<BADGE_MILESTONES[i].badge>>
  ELSE Null

\* The zeroed UserState joinChallenge creates.
initialState(joinedAt, privacy) ==
  [ joinedAt          |-> joinedAt,
    privacy           |-> privacy,
    currentStreak     |-> 0,
    bestStreak        |-> 0,
    streakStartDayUTC |-> Null,
    lastCheckinDayUTC |-> Null,
    freezeTokens      |-> 0,
    freezeSaves       |-> 0,
    badges            |-> <<>>,
    isParticipant     |-> TRUE ]

\* canCheckIn with the comparison turned round
canCheckIn_reversed(userState, day) ==
  LET lastCheckinDay == userState.lastCheckinDayUTC
  IN  IF lastCheckinDay = Null THEN TRUE ELSE day < lastCheckinDay[1]

\* canCheckIn with `day >= lastCheckinDayUTC`
canCheckIn_sameDay(userState, day) ==
  LET lastCheckinDay == userState.lastCheckinDayUTC
  IN  IF lastCheckinDay = Null THEN TRUE ELSE day >= lastCheckinDay[1]

\* canCheckIn(userState, day)
canCheckIn(userState, day) ==
  LET lastCheckinDay == userState.lastCheckinDayUTC
  IN  IF lastCheckinDay = Null THEN TRUE ELSE day > lastCheckinDay[1]

\* The value of a call that threw 'User has already checked in for this UTC day'.
AlreadyCheckedIn ==
  [ threw    |-> TRUE,
    state    |-> Null,
    metadata |-> Null ]

\* const missedDays = last === null ? 0 : day - last
missedDays(userState, day) ==
  IF userState.lastCheckinDayUTC = Null
  THEN 0
  ELSE day - userState.lastCheckinDayUTC[1]

\* canContinueWithFreeze that also fires on a consecutive day
canContinueWithFreeze_upTo2(userState, day) ==
  /\ missedDays(userState, day) >= 1
  /\ missedDays(userState, day) <= 2
  /\ userState.freezeTokens > 0

\* canContinueWithFreeze that does not look at the token count
canContinueWithFreeze_noTokenTest(userState, day) ==
  missedDays(userState, day) = 2 /\ userState.freezeTokens >= 0

\* canContinueWithFreeze that covers any gap of two days or more
canContinueWithFreeze_anyGap(userState, day) ==
  missedDays(userState, day) >= 2 /\ userState.freezeTokens > 0

\* const canContinueWithFreeze = missedDays === 2 && freezeTokens > 0
canContinueWithFreeze(userState, day) ==
  missedDays(userState, day) = 2 /\ userState.freezeTokens > 0

\* const isContinuation = isConsecutiveDay || canContinueWithFreeze
isContinuation(userState, day) ==
  LET isConsecutiveDay == missedDays(userState, day) = 1
  IN  isConsecutiveDay \/ canContinueWithFreeze(userState, day)

\* const hasTrackableStreak = streakStartDayUTC !== null && currentStreak > 0
hasTrackableStreak(userState) ==
  userState.streakStartDayUTC # Null /\ userState.currentStreak > 0

\* const currentStreak = isContinuation && hasTrackableStreak ? currentStreak + 1 : 1
nextCurrentStreak(userState, day) ==
  IF isContinuation(userState, day) /\ hasTrackableStreak(userState)
  THEN userState.currentStreak + 1
  ELSE 1

\* nextStreakStartDayUTC that keeps the stored start day whenever there is one to keep
nextStreakStartDayUTC_keep(userState, day) ==
  IF isContinuation(userState, day) \/ ~hasTrackableStreak(userState)
  THEN userState.streakStartDayUTC
  ELSE <<day>>

\* const streakStartDayUTC = isContinuation && hasTrackableStreak ? streakStartDayUTC : day
nextStreakStartDayUTC(userState, day) ==
  IF isContinuation(userState, day) /\ hasTrackableStreak(userState)
  THEN userState.streakStartDayUTC
  ELSE <<day>>

\* nextBestStreak computed from the streak before the check-in
nextBestStreak_stale(userState, day) ==
  Max(userState.bestStreak, userState.currentStreak)

\* nextBestStreak that follows the current streak
nextBestStreak_current(userState, day) ==
  nextCurrentStreak(userState, day)

\* const bestStreak = Math.max(userState.bestStreak, currentStreak)
nextBestStreak(userState, day) ==
  Max(userState.bestStreak, nextCurrentStreak(userState, day))

\* freezeTokens after `if (canContinueWithFreeze) { freezeTokens -= 1 }`
freezeTokensAfterUse(userState, day) ==
  IF canContinueWithFreeze(userState, day)
  THEN userState.freezeTokens - 1
  ELSE userState.freezeTokens

\* freezeSaves left as it was when a freeze is used
nextFreezeSaves_notCounted(userState, day) == userState.freezeSaves

\* freezeSaves after `if (canContinueWithFreeze) { freezeSaves += 1 }`
nextFreezeSaves(userState, day) ==
  IF canContinueWithFreeze(userState, day)
  THEN userState.freezeSaves + 1
  ELSE userState.freezeSaves

\* earnsFreeze with the cap compared by <=
earnsFreeze_capOffByOne(userState, day) ==
  /\ nextCurrentStreak(userState, day) % 7 = 0
  /\ freezeTokensAfterUse(userState, day) <= MAX_FREEZE_TOKENS

\* earnsFreeze tested on the streak before the check-in
earnsFreeze_oldStreak(userState, day) ==
  /\ userState.currentStreak % 7 = 0
  /\ freezeTokensAfterUse(userState, day) < MAX_FREEZE_TOKENS

\* if (currentStreak % 7 === 0 && freezeTokens < MAX_FREEZE_TOKENS) earnedFreeze = true
earnsFreeze(userState, day) ==
  /\ nextCurrentStreak(userState, day) % 7 = 0
  /\ freezeTokensAfterUse(userState, day) < MAX_FREEZE_TOKENS

\* freezeTokens after `if (...) { freezeTokens += 1 }`
nextFreezeTokens(userState, day) ==
  IF earnsFreeze(userState, day)
  THEN freezeTokensAfterUse(userState, day) + 1
  ELSE freezeTokensAfterUse(userState, day)

\* earnedBadge without the test that the badge is not yet held
earnedBadgeOf_again(userState, day) ==
  milestoneBadgeOf(nextCurrentStreak(userState, day))

\* const earnedBadge = milestoneBadge && !badges.includes(milestoneBadge) ? milestoneBadge : null
earnedBadgeOf(userState, day) ==
  LET milestoneBadge == milestoneBadgeOf(nextCurrentStreak(userState, day))
  IN  IF milestoneBadge # Null /\ ~includes(userState.badges, milestoneBadge[1])
      THEN milestoneBadge
      ELSE Null

\* badges with the earned badge put first
nextBadges_earnedFirst(userState, day) ==
  IF earnedBadgeOf(userState, day) = Null
  THEN userState.badges
  ELSE <<earnedBadgeOf(userState, day)[1]>> \o userState.badges

\* const badges = earnedBadge === null ? userState.badges : [...userState.badges, earnedBadge]
nextBadges(userState, day) ==
  IF earnedBadgeOf(userState, day) = Null
  THEN userState.badges
  ELSE Append(userState.badges, earnedBadgeOf(userState, day)[1])

\* applyCheckInWithMetadata(userState, day)
applyCheckInWithMetadata(userState, day) ==
  IF ~canCheckIn(userState, day) THEN AlreadyCheckedIn
  ELSE
    [ threw |-> FALSE,
      state |-> [ userState EXCEPT
                    !.currentStreak     = nextCurrentStreak(userState, day),
                    !.bestStreak        = nextBestStreak(userState, day),
                    !.streakStartDayUTC = nextStreakStartDayUTC(userState, day),
                    !.lastCheckinDayUTC = <<day>>,
                    !.freezeTokens      = nextFreezeTokens(userState, day),
                    !.freezeSaves       = nextFreezeSaves(userState, day),
                    !.badges            = nextBadges(userState, day) ],
      metadata |-> [ usedFreeze   |-> canContinueWithFreeze(userState, day),
                     earnedFreeze |-> earnsFreeze(userState, day),
                     tokenCount   |-> nextFreezeTokens(userState, day),
                     earnedBadge  |-> earnedBadgeOf(userState, day) ] ]

(***************************************************************************)
(* Persistence of a UserState (the hash user:{subreddit}:{user}).  A field *)
(* holding the decimal text of an integer is modelled by that integer; a   *)
(* hash with no fields, and `null`, are <<>>; a hash or a state that is    *)
(* there is the 1-tuple of its record.                                     *)
(***************************************************************************)
\* const UNSET_DAY = '-1'
UNSET_DAY == -1

\* toDayStorage(day)
toDayStorage(day) == IF day = Null THEN UNSET_DAY ELSE day[1]

\* fromDayStorage(value)
fromDayStorage(value) ==
  IF value = UNSET_DAY THEN Null
  ELSE IF value < 0 THEN Null
  ELSE <<value>>

\* parsePrivacy(value)
parsePrivacy(value) == IF value = "private" THEN "private" ELSE "public"

\* parseNonNegativeInt(value) with fallback 0, on the text of an integer
parseNonNegativeInt(value) == IF value < 0 THEN 0 ELSE value

\* parseBadges(raw): the known badges of the stored list, each once, in
\* milestone order
parseBadges(raw) ==
  LET BADGE_NAMES == [i \in 1..Len(BADGE_MILESTONES) |-> BADGE_MILESTONES[i].badge]
      present(badge) == includes(raw, badge)
  IN  SelectSeq(BADGE_NAMES, present)

\* serializeUserState(state, stateGeneration)
serializeUserState(state, generation) ==
  [ joinedAt          |-> state.joinedAt,
    privacy           |-> state.privacy,
    currentStreak     |-> state.currentStreak,
    bestStreak        |-> state.bestStreak,
    streakStartDayUTC |-> toDayStorage(state.streakStartDayUTC),
    lastCheckinDayUTC |-> toDayStorage(state.lastCheckinDayUTC),
    freezeTokens      |-> state.freezeTokens,
    freezeSaves       |-> state.freezeSaves,
    badges            |-> state.badges,
    isParticipant     |-> IF state.isParticipant THEN "1" ELSE "0",
    stateGeneration   |-> generation ]

\* deserializeUserState without the comparison of the stored generation
deserializeUserState_unfenced(data, currentStateGeneration) ==
  IF data = <<>> THEN Null
  ELSE << [ joinedAt          |-> data[1].joinedAt,
            privacy           |-> parsePrivacy(data[1].privacy),
            currentStreak     |-> parseNonNegativeInt(data[1].currentStreak),
            bestStreak        |-> parseNonNegativeInt(data[1].bestStreak),
            streakStartDayUTC |-> fromDayStorage(data[1].streakStartDayUTC),
            lastCheckinDayUTC |-> fromDayStorage(data[1].lastCheckinDayUTC),
            freezeTokens      |-> Min(parseNonNegativeInt(data[1].freezeTokens),
                                      MAX_FREEZE_TOKENS),
            freezeSaves       |-> parseNonNegativeInt(data[1].freezeSaves),
            badges            |-> parseBadges(data[1].badges),
            isParticipant     |-> data[1].isParticipant # "0" ] >>

\* deserializeUserState(data, currentStateGeneration)
deserializeUserState(data, currentStateGeneration) ==
  IF data = <<>> THEN Null
  ELSE IF parseNonNegativeInt(data[1].stateGeneration) # currentStateGeneration
  THEN Null
  ELSE << [ joinedAt          |-> data[1].joinedAt,
            privacy           |-> parsePrivacy(data[1].privacy),
            currentStreak     |-> parseNonNegativeInt(data[1].currentStreak),
            bestStreak        |-> parseNonNegativeInt(data[1].bestStreak),
            streakStartDayUTC |-> fromDayStorage(data[1].streakStartDayUTC),
            lastCheckinDayUTC |-> fromDayStorage(data[1].lastCheckinDayUTC),
            freezeTokens      |-> Min(parseNonNegativeInt(data[1].freezeTokens),
                                      MAX_FREEZE_TOKENS),
            freezeSaves       |-> parseNonNegativeInt(data[1].freezeSaves),
            badges            |-> parseBadges(data[1].badges),
            isParticipant     |-> data[1].isParticipant # "0" ] >>

(***************************************************************************)
(* Clock                                                                   *)
(***************************************************************************)
MILLISECONDS_PER_DAY == 86400000

\* Math.floor(a / b) for b > 0
FloorDiv(a, b) == a \div b

\* getUtcNowFromBaseMs adding the offset as milliseconds
getUtcNowFromBaseMs_offsetAsMs(baseUtcMs, offsetSeconds) ==
  LET utcMs == baseUtcMs + offsetSeconds
      day == FloorDiv(utcMs, MILLISECONDS_PER_DAY)
      nextResetUtcMs == (day + 1) * MILLISECONDS_PER_DAY
  IN  [ utcMs             |-> utcMs,
        utcDayNumber      |-> day,
        secondsUntilReset |-> Max(0, FloorDiv(nextResetUtcMs - utcMs, 1000)) ]

\* getUtcNowFromBaseMs(baseUtcMs, devTimeOffsetSeconds)
getUtcNowFromBaseMs(baseUtcMs, offsetSeconds) ==
  LET utcMs == baseUtcMs + offsetSeconds * 1000
      day == FloorDiv(utcMs, MILLISECONDS_PER_DAY)
      nextResetUtcMs == (day + 1) * MILLISECONDS_PER_DAY
  IN  [ utcMs             |-> utcMs,
        utcDayNumber      |-> day,
        secondsUntilReset |-> Max(0, FloorDiv(nextResetUtcMs - utcMs, 1000)) ]

(***************************************************************************)
(* Aggregate stats (the stats module)                                      *)
(***************************************************************************)
\* createEmptyAggregateStats(todayDay)
createEmptyAggregateStats(todayDay) ==
  [ lastStatsDay         |-> todayDay,
    participantsTotal    |-> 0,
    checkinsToday        |-> 0,
    checkinsAllTime      |-> 0,
    longestStreakAllTime |-> 0 ]

\* normalizeAggregateStatsDay carrying checkinsToday into the new day
normalizeAggregateStatsDay_keepsToday(stats, todayDay) ==
  IF stats.lastStatsDay = todayDay
  THEN stats
  ELSE [stats EXCEPT !.lastStatsDay = todayDay]

\* normalizeAggregateStatsDay(stats, todayDay)
normalizeAggregateStatsDay(stats, todayDay) ==
  IF stats.lastStatsDay = todayDay
  THEN stats
  ELSE [stats EXCEPT !.lastStatsDay = todayDay, !.checkinsToday = 0]

\* applyAggregateStatsMutation without the bestStreakCandidate update
applyAggregateStatsMutation_noCandidate(stats, todayDay, mutation) ==
  LET normalized == normalizeAggregateStatsDay(stats, todayDay)
      next1 == IF mutation.incrementParticipants
               THEN [normalized EXCEPT !.participantsTotal = @ + 1]
               ELSE normalized
  IN  IF mutation.incrementCheckins
      THEN [next1 EXCEPT !.checkinsToday = @ + 1,
                         !.checkinsAllTime = @ + 1]
      ELSE next1

\* applyAggregateStatsMutation(stats, todayDay, mutation); a mutation
\* without bestStreakCandidate carries <<>> there
applyAggregateStatsMutation(stats, todayDay, mutation) ==
  LET normalized == normalizeAggregateStatsDay(stats, todayDay)
      next1 == IF mutation.incrementParticipants
               THEN [normalized EXCEPT !.participantsTotal = @ + 1]
               ELSE normalized
      next2 == IF mutation.incrementCheckins
               THEN [next1 EXCEPT !.checkinsToday = @ + 1,
                                  !.checkinsAllTime = @ + 1]
               ELSE next1
  IN  IF /\ mutation.bestStreakCandidate # <<>>
         /\ mutation.bestStreakCandidate[1] > next2.longestStreakAllTime
      THEN [next2 EXCEPT !.longestStreakAllTime = mutation.bestStreakCandidate[1]]
      ELSE next2

\* applyCheckinStatsUpdate keeping the incremented checkinsToday
applyCheckinStatsUpdate_keepsIncrement(stats, todayDay, input) ==
  applyAggregateStatsMutation(stats, todayDay,
    [ incrementParticipants |-> FALSE,
      incrementCheckins     |-> input.wasNewTodayCheckin,
      bestStreakCandidate   |-> input.bestStreakCandidate ])

\* applyCheckinStatsUpdate(stats, todayDay, input)
applyCheckinStatsUpdate(stats, todayDay, input) ==
  LET mutated == applyAggregateStatsMutation(stats, todayDay,
                   [ incrementParticipants |-> FALSE,
                     incrementCheckins     |-> input.wasNewTodayCheckin,
                     bestStreakCandidate   |-> input.bestStreakCandidate ])
  IN  [mutated EXCEPT !.checkinsToday = Max(0, input.todaySetSize)]

\* serializeAggregateStatsRecord(stats)
serializeAggregateStatsRecord(stats) == <<stats>>

\* parseAggregateStatsRecord(data, todayDay)
parseAggregateStatsRecord(data, todayDay) ==
  IF data = <<>> THEN createEmptyAggregateStats(todayDay)
  ELSE normalizeAggregateStatsDay(
         [ lastStatsDay         |-> IF data[1].lastStatsDay < 0
                                    THEN todayDay ELSE data[1].lastStatsDay,
           participantsTotal    |-> parseNonNegativeInt(data[1].participantsTotal),
           checkinsToday        |-> parseNonNegativeInt(data[1].checkinsToday),
           checkinsAllTime      |-> parseNonNegativeInt(data[1].checkinsAllTime),
           longestStreakAllTime |-> parseNonNegativeInt(data[1].longestStreakAllTime) ],
         todayDay)

(***************************************************************************)
(* Bounds and inputs of the store specification                            *)
(***************************************************************************)
\* Number of requests (handler invocations) a behaviour starts.
MaxOps == 3

\* Number of days after a run of consecutive check-ins that the milestone
\* specification follows.
MaxRunDays == 10

\* Number of requests a behaviour of the one-at-a-time specification starts.
MaxSeqOps == 4

\* Number of requests a behaviour of a joined-users specification starts.
MaxJoinedOps == 2

\* Number of whole days the wall clock advances.
MaxWallDays == 1

\* Users issuing requests.
Users == {"t2_a", "t2_b"}

\* Requests that can be in flight together (one process each).
MaxInFlight == 2

Procs == 1..MaxInFlight

\* devTimeOffsetSeconds values a developer sets: none, or a day ahead.
OffsetChoices == {0, 86400}

\* Wall-clock time at the start: noon of UTC day 1.
StartMs == MILLISECONDS_PER_DAY + 43200000

(***************************************************************************)
(* Rate limit                                                              *)
(***************************************************************************)
ACTION_THROTTLE_WINDOW_MS == 2000

\* ActionType
ActionTypes == {"join", "checkin"}

\* action === 'join' ? 'lastJoinAttemptMs' : 'lastCheckinAttemptMs'
rateLimitField(action) ==
  IF action = "join" THEN "lastJoinAttemptMs" ELSE "lastCheckinAttemptMs"

\* The rl hashes before any attempt: neither field is set.
NoAttempts ==
  [u \in Users |-> [lastJoinAttemptMs |-> Null, lastCheckinAttemptMs |-> Null]]

\* evaluateActionThrottle with `elapsedMs > windowMs`
evaluateActionThrottle_exclusive(atMs, lastAttemptMs, windowMs) ==
  IF lastAttemptMs = Null
  THEN [allowed |-> TRUE, retryAfterMs |-> 0]
  ELSE IF lastAttemptMs[1] > atMs
  THEN [allowed |-> TRUE, retryAfterMs |-> 0]
  ELSE LET elapsedMs == atMs - lastAttemptMs[1]
       IN  IF elapsedMs > windowMs
           THEN [allowed |-> TRUE, retryAfterMs |-> 0]
           ELSE [allowed |-> FALSE, retryAfterMs |-> Max(windowMs - elapsedMs, 0)]

\* evaluateActionThrottle(nowMs, lastAttemptMs, windowMs)
evaluateActionThrottle(atMs, lastAttemptMs, windowMs) ==
  IF lastAttemptMs = Null
  THEN [allowed |-> TRUE, retryAfterMs |-> 0]
  ELSE IF lastAttemptMs[1] > atMs
  THEN [allowed |-> TRUE, retryAfterMs |-> 0]
  ELSE LET elapsedMs == atMs - lastAttemptMs[1]
       IN  IF elapsedMs >= windowMs
           THEN [allowed |-> TRUE, retryAfterMs |-> 0]
           ELSE [allowed |-> FALSE, retryAfterMs |-> Max(windowMs - elapsedMs, 0)]

(***************************************************************************)
(* State                                                                   *)
(***************************************************************************)
VARIABLES
  eState,                \* engine specification: the UserState the calls are chained on
  eCall,                 \* the last call of the function studied and what it returned
  nowMs,                 \* wall clock, Date.now()
  devTimeOffsetSeconds,  \* dev:{subreddit} field devTimeOffsetSeconds
  stateGeneration,       \* dev:{subreddit} field stateGeneration
  userHash,              \* user:{subreddit}:{user} hashes
  leaderboard,           \* lb:{subreddit} sorted set: member -> score
  participants,          \* participants:{subreddit} hash: its fields
  challengeStats,        \* stats:{subreddit} hash
  todayCheckins,         \* today:{subreddit}:{day} hashes, as <<day, user>> pairs
  rateLimit,             \* rl:{subreddit}:{user} hashes (throttle specification)
  challengeConfig,       \* config:{subreddit} hash (moderator specification)
  posts,                 \* the custom posts submitted to the subreddit, oldest first
  proc,                  \* per request in flight: where it is and its locals
  opsLeft                \* number of requests the behaviour may still start

engineVars == <<eState, eCall>>

storeVars == <<nowMs, devTimeOffsetSeconds, stateGeneration, userHash, leaderboard,
               participants, challengeStats, todayCheckins, rateLimit,
               challengeConfig, posts, proc, opsLeft>>

vars == <<eState, eCall, nowMs, devTimeOffsetSeconds, stateGeneration, userHash,
          leaderboard, participants, challengeStats, todayCheckins, rateLimit,
          challengeConfig, posts, proc, opsLeft>>

\* A process with no request in flight and nothing returned yet.
Idle ==
  [ pc       |-> "idle",
    op       |-> "none",
    user     |-> "none",
    privacy  |-> "none",
    today    |-> 0,
    gen      |-> 0,
    existing |-> Null,
    result   |-> Null,
    added    |-> FALSE,
    size     |-> 0,
    metadata |-> Null,
    stats    |-> Null,
    body     |-> Null,
    config   |-> Null,
    post     |-> Null,
    limit    |-> 0,
    ranked   |-> <<>>,
    rows     |-> <<>>,
    oldStats |-> Null,
    newStats |-> Null,
    response |-> Null ]

\* The store before any request: no key exists.
StoreInit ==
  /\ nowMs = StartMs
  /\ devTimeOffsetSeconds = 0
  /\ stateGeneration = 0
  /\ userHash = [u \in Users |-> <<>>]
  /\ leaderboard = [u \in Users |-> <<>>]
  /\ participants = {}
  /\ challengeStats = <<>>
  /\ todayCheckins = {}
  /\ rateLimit = NoAttempts
  /\ challengeConfig = <<>>
  /\ posts = <<>>
  /\ proc = [p \in Procs |-> Idle]

(***************************************************************************)
(* Engine specification: one UserState taken from join through any         *)
(* sequence of applyCheckInWithMetadata calls and privacy changes.         *)
(***************************************************************************)
EngineDays == 0..MaxDay

\* The call record of an operation that is not a check-in.
plainCall(op) ==
  [ op |-> op, day |-> Null, threw |-> FALSE, before |-> Null, metadata |-> Null ]

EngineInit ==
  /\ \E privacy \in Privacy : eState = initialState(0, privacy)
  /\ eCall = plainCall("join")
  /\ StoreInit
  /\ opsLeft = 0

\* setPrivacy's update of the state: { ...existing, privacy }
EngineSetPrivacy(privacy) ==
  /\ eState.privacy # privacy
  /\ eState' = [eState EXCEPT !.privacy = privacy]
  /\ eCall' = plainCall("setPrivacy")
  /\ UNCHANGED storeVars

\* A call applyCheckInWithMetadata(eState, day) that returns: the caller
\* continues with the returned state.
EngineCheckIn(day) ==
  LET result == applyCheckInWithMetadata(eState, day)
  IN  /\ ~result.threw
      /\ eState' = result.state
      /\ eCall' = [ op |-> "checkIn", day |-> <<day>>, threw |-> FALSE,
                    before |-> <<eState>>, metadata |-> <<result.metadata>> ]
      /\ UNCHANGED storeVars

\* A call applyCheckInWithMetadata(eState, day) that throws: no state is
\* produced, the caller keeps the one it had.
EngineCheckInRejected(day) ==
  LET result == applyCheckInWithMetadata(eState, day)
  IN  /\ result.threw
      /\ eState' = eState
      /\ eCall' = [ op |-> "checkIn", day |-> <<day>>, threw |-> TRUE,
                    before |-> <<eState>>, metadata |-> Null ]
      /\ UNCHANGED storeVars

EngineNext ==
  \/ \E privacy \in Privacy : EngineSetPrivacy(privacy)
  \/ \E day \in EngineDays : EngineCheckIn(day)
  \/ \E day \in EngineDays : EngineCheckInRejected(day)

EngineSpec == EngineInit /\ [][EngineNext]_vars

(***************************************************************************)
(* Milestone specification: the engine specification with the days chosen  *)
(* so that every badge milestone is met.  The user checks in day after day *)
(* from day 0 on (the run); in the MaxRunDays days that follow a run of    *)
(* 6, 29, 89, 179 or 364 days, any day may be checked in or skipped.       *)
(***************************************************************************)
\* Lengths of the runs: one day short of 7, 30, 90, 180 and 365.
RunStarts == {6, 29, 89, 179, 364}

\* The days following the run of n days.
DaysAfterRun(n) == n..(n + MaxRunDays)

\* The state is that of a user who checked in on each of the days 0..day-1
\* and on no other.
IsRunDay(day) ==
  /\ eState.currentStreak = day
  /\ eState.lastCheckinDayUTC = IF day = 0 THEN Null ELSE <<day - 1>>
  /\ eState.streakStartDayUTC = IF day = 0 THEN Null ELSE <<0>>

MilestoneInit ==
  /\ eState = initialState(0, "public")
  /\ eCall = plainCall("join")
  /\ StoreInit
  /\ opsLeft = 0

\* day follows the longest run of 6, 29, 89, 179 or 364 days that the user
\* completed.
IsAfterRun(day) ==
  \E n \in RunStarts :
    /\ day \in DaysAfterRun(n)
    /\ eState.lastCheckinDayUTC # Null
    /\ eState.lastCheckinDayUTC[1] >= n - 1
    /\ \A m \in RunStarts : m > n => eState.lastCheckinDayUTC[1] < m - 1

\* The next day of the run.
MilestoneRunDay ==
  /\ eState.currentStreak < 364 + MaxRunDays
  /\ IsRunDay(eState.currentStreak)
  /\ EngineCheckIn(eState.currentStreak)

MilestoneCheckIn(day) ==
  /\ IsAfterRun(day)
  /\ EngineCheckIn(day)

MilestoneCheckInRejected(day) ==
  /\ IsAfterRun(day)
  /\ EngineCheckInRejected(day)

MilestoneDays == UNION { DaysAfterRun(n) : n \in RunStarts }

MilestoneNext ==
  \/ \E privacy \in Privacy : EngineSetPrivacy(privacy)
  \/ MilestoneRunDay
  \/ \E day \in MilestoneDays : MilestoneCheckIn(day)
  \/ \E day \in MilestoneDays : MilestoneCheckInRejected(day)

MilestoneSpec == MilestoneInit /\ [][MilestoneNext]_vars

(***************************************************************************)
(* Store specification: the request handlers, one step per store call      *)
(* (every `await redis...`), so that requests in flight interleave as the  *)
(* event loop lets them.  The rate limiter's verdict depends on wall-clock *)
(* milliseconds the model does not follow; a request is either let through *)
(* or answered 429.  The usernames hash takes no part in any of these     *)
(* handlers' results and is left out; the challenge config takes none in   *)
(* theirs either and is read and written by the moderator routes only.     *)
(***************************************************************************)
\* getTodayDayNumber(subredditId): reads the offset and the wall clock
getTodayDayNumber ==
  getUtcNowFromBaseMs(nowMs, devTimeOffsetSeconds).utcDayNumber

\* A process moves to the next store call of its handler.
Goto(p, pc) == proc' = [proc EXCEPT ![p].pc = pc]

\* What a handler returned: HTTP status, code, and the state and check-in
\* metadata of the body when it carries them.
Response(status, code, state, metadata) ==
  << [ status |-> status, code |-> code, state |-> state, metadata |-> metadata ] >>

\* The handler returns: its locals are dropped, its response stays.
Respond(p, status, code, state, metadata) ==
  proc' = [proc EXCEPT ![p] =
             [Idle EXCEPT !.op = proc[p].op,
                          !.user = proc[p].user,
                          !.response = Response(status, code, state, metadata)]]

\* Processes are interchangeable: a request takes the first free one.
FirstFree(p) ==
  /\ proc[p].pc = "idle"
  /\ \A q \in Procs : q < p => proc[q].pc # "idle"

\* A request is answered before it touches the store.
Refuse(p, op, u, status, code) ==
  /\ FirstFree(p)
  /\ opsLeft > 0
  /\ opsLeft' = opsLeft - 1
  /\ proc' = [proc EXCEPT ![p] =
                [Idle EXCEPT !.op = op, !.user = u,
                             !.response = Response(status, code, Null, Null)]]

\* A request starts on a process that has none in flight.
Begin(p, op, u, privacy, today, pc) ==
  /\ FirstFree(p)
  /\ opsLeft > 0
  /\ opsLeft' = opsLeft - 1
  /\ proc' = [proc EXCEPT ![p] =
                [Idle EXCEPT !.pc = pc, !.op = op, !.user = u,
                             !.privacy = privacy, !.today = today]]

\* getStateGeneration(subredditId), in getUserState and in setUserState
ReadGeneration(p, to) ==
  proc' = [proc EXCEPT ![p].gen = stateGeneration, ![p].pc = to]

\* setUserState: redis.hSet(keys.userState(...), serializeUserState(state, generation))
WriteUser(p, to) ==
  /\ userHash' = [userHash EXCEPT ![proc[p].user] =
                    <<serializeUserState(proc[p].result[1], proc[p].gen)>>]
  /\ Goto(p, to)

\* syncLeaderboardEntry(subredditId, userId, userState): zRem or zAdd
syncLeaderboardEntry(userId, userState) ==
  leaderboard' =
    IF userState.privacy = "private"
    THEN [leaderboard EXCEPT ![userId] = <<>>]
    ELSE [leaderboard EXCEPT ![userId] = <<userState.currentStreak>>]

(***************************************************************************)
(* POST /join -> joinChallenge                                             *)
(***************************************************************************)
JoinStart(p, u, privacy) ==
  /\ Begin(p, "join", u, privacy, 0, "join_getGeneration")
  /\ UNCHANGED <<eState, eCall, nowMs, devTimeOffsetSeconds, stateGeneration, userHash, leaderboard,
                 participants, challengeStats, todayCheckins, rateLimit,
                 challengeConfig, posts>>

\* checkActionRateLimit said no: 429 JOIN_RATE_LIMITED
JoinRateLimited(p, u) ==
  /\ Refuse(p, "join", u, 429, "JOIN_RATE_LIMITED")
  /\ UNCHANGED <<eState, eCall, nowMs, devTimeOffsetSeconds, stateGeneration, userHash, leaderboard,
                 participants, challengeStats, todayCheckins, rateLimit,
                 challengeConfig, posts>>

JoinGetGeneration(p) ==
  /\ proc[p].pc = "join_getGeneration"
  /\ ReadGeneration(p, "join_readUser")
  /\ UNCHANGED <<eState, eCall, nowMs, devTimeOffsetSeconds, stateGeneration, userHash,
                 leaderboard, participants, challengeStats, todayCheckins, opsLeft,
                 rateLimit,
                 challengeConfig, posts>>

\* joinChallenge without `if (existing) return existing`
JoinReadUser_noReturn(p) ==
  /\ proc[p].pc = "join_readUser"
  /\ proc' = [proc EXCEPT
                ![p].result = <<initialState(nowMs, proc[p].privacy)>>,
                ![p].pc = "join_setGeneration"]
  /\ UNCHANGED <<eState, eCall, nowMs, devTimeOffsetSeconds, stateGeneration, userHash, leaderboard,
                 participants, challengeStats, todayCheckins, opsLeft, rateLimit,
                 challengeConfig, posts>>

\* const existing = await getUserState(...); if (existing) return existing;
\* otherwise the zeroed initialState is built
JoinReadUser(p) ==
  /\ proc[p].pc = "join_readUser"
  /\ LET existing == deserializeUserState(userHash[proc[p].user], proc[p].gen)
     IN  IF existing # Null
         THEN Respond(p, 200, "ok", existing, Null)
         ELSE proc' = [proc EXCEPT
                         ![p].result = <<initialState(nowMs, proc[p].privacy)>>,
                         ![p].pc = "join_setGeneration"]
  /\ UNCHANGED <<eState, eCall, nowMs, devTimeOffsetSeconds, stateGeneration, userHash, leaderboard,
                 participants, challengeStats, todayCheckins, opsLeft, rateLimit,
                 challengeConfig, posts>>

JoinSetGeneration(p) ==
  /\ proc[p].pc = "join_setGeneration"
  /\ ReadGeneration(p, "join_writeUser")
  /\ UNCHANGED <<eState, eCall, nowMs, devTimeOffsetSeconds, stateGeneration, userHash,
                 leaderboard, participants, challengeStats, todayCheckins, opsLeft,
                 rateLimit,
                 challengeConfig, posts>>

JoinWriteUser(p) ==
  /\ proc[p].pc = "join_writeUser"
  /\ WriteUser(p, "join_syncLeaderboard")
  /\ UNCHANGED <<eState, eCall, nowMs, devTimeOffsetSeconds, stateGeneration,
                 leaderboard, participants, challengeStats, todayCheckins, opsLeft,
                 rateLimit,
                 challengeConfig, posts>>

JoinSyncLeaderboard(p) ==
  /\ proc[p].pc = "join_syncLeaderboard"
  /\ syncLeaderboardEntry(proc[p].user, proc[p].result[1])
  /\ Goto(p, "join_addParticipant")
  /\ UNCHANGED <<eState, eCall, nowMs, devTimeOffsetSeconds, stateGeneration, userHash,
                 participants, challengeStats, todayCheckins, opsLeft, rateLimit,
                 challengeConfig, posts>>

\* const participantsAdded = await redis.hSet(keys.participants(...), { [userId]: '1' })
JoinAddParticipant(p) ==
  /\ proc[p].pc = "join_addParticipant"
  /\ participants' = participants \cup {proc[p].user}
  /\ IF proc[p].user \notin participants
     THEN Goto(p, "join_readToday")
     ELSE Respond(p, 200, "ok", proc[p].result, Null)
  /\ UNCHANGED <<eState, eCall, nowMs, devTimeOffsetSeconds, stateGeneration, userHash, leaderboard,
                 challengeStats, todayCheckins, opsLeft, rateLimit,
                 challengeConfig, posts>>

\* const today = await getTodayDayNumber(subredditId)
JoinReadToday(p) ==
  /\ proc[p].pc = "join_readToday"
  /\ proc' = [proc EXCEPT ![p].today = getTodayDayNumber,
                          ![p].pc = "join_readStats"]
  /\ UNCHANGED <<eState, eCall, nowMs, devTimeOffsetSeconds, stateGeneration, userHash, leaderboard,
                 participants, challengeStats, todayCheckins, opsLeft, rateLimit,
                 challengeConfig, posts>>

\* updateChallengeStats: hGetAll, parse, applyAggregateStatsMutation
JoinReadStats(p) ==
  /\ proc[p].pc = "join_readStats"
  /\ LET existing == parseAggregateStatsRecord(challengeStats, proc[p].today)
         updated == applyAggregateStatsMutation(existing, proc[p].today,
                      [ incrementParticipants |-> TRUE,
                        incrementCheckins     |-> FALSE,
                        bestStreakCandidate   |-> <<>> ])
     IN  proc' = [proc EXCEPT ![p].stats = <<updated>>,
                              ![p].pc = "join_writeStats"]
  /\ UNCHANGED <<eState, eCall, nowMs, devTimeOffsetSeconds, stateGeneration, userHash, leaderboard,
                 participants, challengeStats, todayCheckins, opsLeft, rateLimit,
                 challengeConfig, posts>>

\* updateChallengeStats: hSet(statsKey, serializeAggregateStatsRecord(updated))
JoinWriteStats(p) ==
  /\ proc[p].pc = "join_writeStats"
  /\ challengeStats' = serializeAggregateStatsRecord(proc[p].stats[1])
  /\ Respond(p, 200, "ok", proc[p].result, Null)
  /\ UNCHANGED <<eState, eCall, nowMs, devTimeOffsetSeconds, stateGeneration, userHash, leaderboard,
                 participants, todayCheckins, opsLeft, rateLimit,
                 challengeConfig, posts>>

(***************************************************************************)
(* POST /privacy -> setPrivacy                                             *)
(***************************************************************************)
PrivacyStart(p, u, privacy) ==
  /\ Begin(p, "setPrivacy", u, privacy, 0, "privacy_getGeneration")
  /\ UNCHANGED <<eState, eCall, nowMs, devTimeOffsetSeconds, stateGeneration, userHash, leaderboard,
                 participants, challengeStats, todayCheckins, rateLimit,
                 challengeConfig, posts>>

PrivacyGetGeneration(p) ==
  /\ proc[p].pc = "privacy_getGeneration"
  /\ ReadGeneration(p, "privacy_readUser")
  /\ UNCHANGED <<eState, eCall, nowMs, devTimeOffsetSeconds, stateGeneration, userHash,
                 leaderboard, participants, challengeStats, todayCheckins, opsLeft,
                 rateLimit,
                 challengeConfig, posts>>

\* setPrivacy that builds a state for a user who has none
PrivacyReadUser_create(p) ==
  /\ proc[p].pc = "privacy_readUser"
  /\ LET existing == deserializeUserState(userHash[proc[p].user], proc[p].gen)
         base == IF existing = Null
                 THEN initialState(nowMs, proc[p].privacy)
                 ELSE existing[1]
     IN  proc' = [proc EXCEPT
                    ![p].existing = <<base>>,
                    ![p].result = <<[base EXCEPT !.privacy = proc[p].privacy]>>,
                    ![p].pc = "privacy_setGeneration"]
  /\ UNCHANGED <<eState, eCall, nowMs, devTimeOffsetSeconds, stateGeneration, userHash, leaderboard,
                 participants, challengeStats, todayCheckins, opsLeft, rateLimit,
                 challengeConfig, posts>>

\* const existing = await getUserState(...); if (!existing) return null;
\* updated = { ...existing, privacy }
PrivacyReadUser(p) ==
  /\ proc[p].pc = "privacy_readUser"
  /\ LET existing == deserializeUserState(userHash[proc[p].user], proc[p].gen)
     IN  IF existing = Null
         THEN Respond(p, 403, "JOIN_REQUIRED", Null, Null)
         ELSE proc' = [proc EXCEPT
                         ![p].existing = existing,
                         ![p].result = <<[existing[1] EXCEPT !.privacy = proc[p].privacy]>>,
                         ![p].pc = "privacy_setGeneration"]
  /\ UNCHANGED <<eState, eCall, nowMs, devTimeOffsetSeconds, stateGeneration, userHash, leaderboard,
                 participants, challengeStats, todayCheckins, opsLeft, rateLimit,
                 challengeConfig, posts>>

PrivacySetGeneration(p) ==
  /\ proc[p].pc = "privacy_setGeneration"
  /\ ReadGeneration(p, "privacy_writeUser")
  /\ UNCHANGED <<eState, eCall, nowMs, devTimeOffsetSeconds, stateGeneration, userHash,
                 leaderboard, participants, challengeStats, todayCheckins, opsLeft,
                 rateLimit,
                 challengeConfig, posts>>

PrivacyWriteUser(p) ==
  /\ proc[p].pc = "privacy_writeUser"
  /\ WriteUser(p, "privacy_syncLeaderboard")
  /\ UNCHANGED <<eState, eCall, nowMs, devTimeOffsetSeconds, stateGeneration,
                 leaderboard, participants, challengeStats, todayCheckins, opsLeft,
                 rateLimit,
                 challengeConfig, posts>>

PrivacySyncLeaderboard(p) ==
  /\ proc[p].pc = "privacy_syncLeaderboard"
  /\ syncLeaderboardEntry(proc[p].user, proc[p].result[1])
  /\ Respond(p, 200, "ok", proc[p].result, Null)
  /\ UNCHANGED <<eState, eCall, nowMs, devTimeOffsetSeconds, stateGeneration, userHash,
                 participants, challengeStats, todayCheckins, opsLeft, rateLimit,
                 challengeConfig, posts>>

(***************************************************************************)
(* POST /checkin -> recordCheckIn                                          *)
(***************************************************************************)
TODAY_SET_RETENTION_DAYS == 30

\* const utcNow = await getUtcNow(subredditId); const today = utcNow.utcDayNumber
CheckinStart(p, u) ==
  /\ Begin(p, "checkin", u, "none", getTodayDayNumber, "checkin_getGeneration")
  /\ UNCHANGED <<eState, eCall, nowMs, devTimeOffsetSeconds, stateGeneration, userHash, leaderboard,
                 participants, challengeStats, todayCheckins, rateLimit,
                 challengeConfig, posts>>

\* checkActionRateLimit said no: 429 CHECKIN_RATE_LIMITED
CheckinRateLimited(p, u) ==
  /\ Refuse(p, "checkin", u, 429, "CHECKIN_RATE_LIMITED")
  /\ UNCHANGED <<eState, eCall, nowMs, devTimeOffsetSeconds, stateGeneration, userHash, leaderboard,
                 participants, challengeStats, todayCheckins, rateLimit,
                 challengeConfig, posts>>

CheckinGetGeneration(p) ==
  /\ proc[p].pc = "checkin_getGeneration"
  /\ ReadGeneration(p, "checkin_readUser")
  /\ UNCHANGED <<eState, eCall, nowMs, devTimeOffsetSeconds, stateGeneration, userHash,
                 leaderboard, participants, challengeStats, todayCheckins, opsLeft,
                 rateLimit,
                 challengeConfig, posts>>

\* const state = await getUserState(...) and the route's three gates
CheckinReadUser(p) ==
  /\ proc[p].pc = "checkin_readUser"
  /\ LET state == deserializeUserState(userHash[proc[p].user], proc[p].gen)
         today == proc[p].today
     IN  IF state = Null
         THEN Respond(p, 403, "JOIN_REQUIRED", Null, Null)
         ELSE IF state[1].lastCheckinDayUTC = <<today>>
         THEN Respond(p, 409, "ALREADY_CHECKED_IN", state, Null)
         ELSE IF /\ state[1].lastCheckinDayUTC # Null
                 /\ state[1].lastCheckinDayUTC[1] > today
         THEN Respond(p, 409, "PAST_EFFECTIVE_DAY", state, Null)
         ELSE Goto(p, "record_getGeneration")
  /\ UNCHANGED <<eState, eCall, nowMs, devTimeOffsetSeconds, stateGeneration, userHash, leaderboard,
                 participants, challengeStats, todayCheckins, opsLeft, rateLimit,
                 challengeConfig, posts>>

RecordGetGeneration(p) ==
  /\ proc[p].pc = "record_getGeneration"
  /\ ReadGeneration(p, "record_readUser")
  /\ UNCHANGED <<eState, eCall, nowMs, devTimeOffsetSeconds, stateGeneration, userHash,
                 leaderboard, participants, challengeStats, todayCheckins, opsLeft,
                 rateLimit,
                 challengeConfig, posts>>

\* recordCheckIn: const existing = await getUserState(...); if (!existing)
\* return null; const result = applyCheckInWithMetadata(existing, day).
\* null makes the route answer 500, a throw is caught by the route's catch.
RecordReadUser(p) ==
  /\ proc[p].pc = "record_readUser"
  /\ LET existing == deserializeUserState(userHash[proc[p].user], proc[p].gen)
     IN  IF existing = Null
         THEN Respond(p, 500, "CHECKIN_SAVE_FAILED", Null, Null)
         ELSE LET result == applyCheckInWithMetadata(existing[1], proc[p].today)
              IN  IF result.threw
                  THEN Respond(p, 401, "CHECKIN_FAILED", Null, Null)
                  ELSE proc' = [proc EXCEPT
                                  ![p].existing = existing,
                                  ![p].result = <<result.state>>,
                                  ![p].metadata = <<result.metadata>>,
                                  ![p].pc = "record_setGeneration"]
  /\ UNCHANGED <<eState, eCall, nowMs, devTimeOffsetSeconds, stateGeneration, userHash, leaderboard,
                 participants, challengeStats, todayCheckins, opsLeft, rateLimit,
                 challengeConfig, posts>>

RecordSetGeneration(p) ==
  /\ proc[p].pc = "record_setGeneration"
  /\ ReadGeneration(p, "record_writeUser")
  /\ UNCHANGED <<eState, eCall, nowMs, devTimeOffsetSeconds, stateGeneration, userHash,
                 leaderboard, participants, challengeStats, todayCheckins, opsLeft,
                 rateLimit,
                 challengeConfig, posts>>

RecordWriteUser(p) ==
  /\ proc[p].pc = "record_writeUser"
  /\ WriteUser(p, "record_syncLeaderboard")
  /\ UNCHANGED <<eState, eCall, nowMs, devTimeOffsetSeconds, stateGeneration,
                 leaderboard, participants, challengeStats, todayCheckins, opsLeft,
                 rateLimit,
                 challengeConfig, posts>>

RecordSyncLeaderboard(p) ==
  /\ proc[p].pc = "record_syncLeaderboard"
  /\ syncLeaderboardEntry(proc[p].user, proc[p].result[1])
  /\ Goto(p, "record_addToday")
  /\ UNCHANGED <<eState, eCall, nowMs, devTimeOffsetSeconds, stateGeneration, userHash,
                 participants, challengeStats, todayCheckins, opsLeft, rateLimit,
                 challengeConfig, posts>>

\* const added = await redis.hSet(todayKey, { [userId]: '1' })
RecordAddToday(p) ==
  /\ proc[p].pc = "record_addToday"
  /\ todayCheckins' = todayCheckins \cup {<<proc[p].today, proc[p].user>>}
  /\ proc' = [proc EXCEPT
                ![p].added = <<proc[p].today, proc[p].user>> \notin todayCheckins,
                ![p].pc = "record_lenToday"]
  /\ UNCHANGED <<eState, eCall, nowMs, devTimeOffsetSeconds, stateGeneration, userHash, leaderboard,
                 participants, challengeStats, opsLeft, rateLimit,
                 challengeConfig, posts>>

\* redis.hLen(keys.todayCheckins(subredditId, day))
todaySetSizeOf(day) == Cardinality({entry \in todayCheckins : entry[1] = day})

\* const todaySetSize = await redis.hLen(todayKey)
RecordLenToday(p) ==
  /\ proc[p].pc = "record_lenToday"
  /\ proc' = [proc EXCEPT ![p].size = todaySetSizeOf(proc[p].today),
                          ![p].pc = "record_readStats"]
  /\ UNCHANGED <<eState, eCall, nowMs, devTimeOffsetSeconds, stateGeneration, userHash, leaderboard,
                 participants, challengeStats, todayCheckins, opsLeft, rateLimit,
                 challengeConfig, posts>>

\* hGetAll(stats), parseAggregateStatsRecord, applyCheckinStatsUpdate
RecordReadStats(p) ==
  /\ proc[p].pc = "record_readStats"
  /\ LET parsedStats == parseAggregateStatsRecord(challengeStats, proc[p].today)
         nextStats == applyCheckinStatsUpdate(parsedStats, proc[p].today,
                        [ wasNewTodayCheckin  |-> proc[p].added,
                          todaySetSize        |-> proc[p].size,
                          bestStreakCandidate |-> <<proc[p].result[1].bestStreak>> ])
     IN  proc' = [proc EXCEPT ![p].stats = <<nextStats>>,
                              ![p].pc = "record_writeStats"]
  /\ UNCHANGED <<eState, eCall, nowMs, devTimeOffsetSeconds, stateGeneration, userHash, leaderboard,
                 participants, challengeStats, todayCheckins, opsLeft, rateLimit,
                 challengeConfig, posts>>

\* redis.hSet(keys.challengeStats(...), serializeAggregateStatsRecord(nextStats))
RecordWriteStats(p) ==
  /\ proc[p].pc = "record_writeStats"
  /\ challengeStats' = serializeAggregateStatsRecord(proc[p].stats[1])
  /\ Goto(p, "record_prune")
  /\ UNCHANGED <<eState, eCall, nowMs, devTimeOffsetSeconds, stateGeneration, userHash, leaderboard,
                 participants, todayCheckins, opsLeft, rateLimit,
                 challengeConfig, posts>>

\* pruneExpiredTodaySet deleting the oldest day of the retention window
expiredDayOf_insideWindow(todayDay) ==
  IF todayDay - TODAY_SET_RETENTION_DAYS < 0
  THEN Null
  ELSE <<todayDay - TODAY_SET_RETENTION_DAYS>>

\* pruneExpiredTodaySet(subredditId, todayDay): the day it deletes, if any
expiredDayOf(todayDay) ==
  IF todayDay - TODAY_SET_RETENTION_DAYS - 1 < 0
  THEN Null
  ELSE <<todayDay - TODAY_SET_RETENTION_DAYS - 1>>

\* await pruneExpiredTodaySet(subredditId, day); return result.  A failed
\* delete is swallowed.
RecordPrune(p) ==
  /\ proc[p].pc = "record_prune"
  /\ \/ todayCheckins' =
          {entry \in todayCheckins : <<entry[1]>> # expiredDayOf(proc[p].today)}
     \/ expiredDayOf(proc[p].today) # Null /\ todayCheckins' = todayCheckins
  /\ Respond(p, 200, "ok", proc[p].result, proc[p].metadata)
  /\ UNCHANGED <<eState, eCall, nowMs, devTimeOffsetSeconds, stateGeneration, userHash, leaderboard,
                 participants, challengeStats, opsLeft, rateLimit,
                 challengeConfig, posts>>

(***************************************************************************)
(* GET /config -> getChallengeStats -> syncChallengeStatsCheckinsToday     *)
(***************************************************************************)
\* const synced = { ...parsed, lastStatsDay: day, checkinsToday: todaySetSize }
syncedStats(parsed, day, todaySetSize) ==
  [parsed EXCEPT !.lastStatsDay = day, !.checkinsToday = todaySetSize]

\* The handler returns aggregate stats: they stay with its response.
RespondStats(p, stats) ==
  proc' = [proc EXCEPT ![p] =
             [Idle EXCEPT !.op = proc[p].op,
                          !.stats = <<stats>>,
                          !.response = Response(200, "ok", Null, Null)]]

\* const utcNow = await getUtcNow(subredditId); const today = utcNow.utcDayNumber
ConfigStart(p) ==
  /\ Begin(p, "config", "none", "none", getTodayDayNumber, "config_readStats")
  /\ UNCHANGED <<eState, eCall, nowMs, devTimeOffsetSeconds, stateGeneration, userHash, leaderboard,
                 participants, challengeStats, todayCheckins, rateLimit,
                 challengeConfig, posts>>

\* const stored = await redis.hGetAll(statsKey); parseAggregateStatsRecord(stored, day)
ConfigReadStats(p) ==
  /\ proc[p].pc = "config_readStats"
  /\ proc' = [proc EXCEPT
                ![p].stats = <<parseAggregateStatsRecord(challengeStats, proc[p].today)>>,
                ![p].pc = "config_lenToday"]
  /\ UNCHANGED <<eState, eCall, nowMs, devTimeOffsetSeconds, stateGeneration, userHash, leaderboard,
                 participants, challengeStats, todayCheckins, opsLeft, rateLimit,
                 challengeConfig, posts>>

\* const todaySetSize = await redis.hLen(keys.todayCheckins(subredditId, day))
ConfigLenToday(p) ==
  /\ proc[p].pc = "config_lenToday"
  /\ proc' = [proc EXCEPT ![p].size = todaySetSizeOf(proc[p].today),
                          ![p].pc = "config_writeStats"]
  /\ UNCHANGED <<eState, eCall, nowMs, devTimeOffsetSeconds, stateGeneration, userHash, leaderboard,
                 participants, challengeStats, todayCheckins, opsLeft, rateLimit,
                 challengeConfig, posts>>

\* await redis.hSet(statsKey, serializeAggregateStatsRecord(synced)); return synced
ConfigWriteStats(p) ==
  /\ proc[p].pc = "config_writeStats"
  /\ LET synced == syncedStats(proc[p].stats[1], proc[p].today, proc[p].size)
     IN  /\ challengeStats' = serializeAggregateStatsRecord(synced)
         /\ RespondStats(p, synced)
  /\ UNCHANGED <<eState, eCall, nowMs, devTimeOffsetSeconds, stateGeneration, userHash, leaderboard,
                 participants, todayCheckins, opsLeft, rateLimit,
                 challengeConfig, posts>>

(***************************************************************************)
(* POST /dev/reset -> resetChallengeProgress                               *)
(***************************************************************************)
\* const stateGeneration = await redis.hIncrBy(devSettings, 'stateGeneration', 1)
ResetStart(p) ==
  /\ Begin(p, "reset", "none", "none", 0, "reset_offsets")
  /\ stateGeneration' = stateGeneration + 1
  /\ UNCHANGED <<eState, eCall, nowMs, devTimeOffsetSeconds, userHash, leaderboard,
                 participants, challengeStats, todayCheckins, rateLimit,
                 challengeConfig, posts>>

\* await redis.hSet(devSettings, { devDayOffset: '0', devTimeOffsetSeconds: '0' })
ResetOffsets(p) ==
  /\ proc[p].pc = "reset_offsets"
  /\ devTimeOffsetSeconds' = 0
  /\ Goto(p, "reset_delete")
  /\ UNCHANGED <<eState, eCall, nowMs, stateGeneration, userHash, leaderboard,
                 participants, challengeStats, todayCheckins, opsLeft, rateLimit,
                 challengeConfig, posts>>

\* the del without keys.challengeStats(subredditId)
ResetDelete_keepStats(p) ==
  /\ proc[p].pc = "reset_delete"
  /\ leaderboard' = [u \in Users |-> <<>>]
  /\ participants' = {}
  /\ Respond(p, 200, "ok", Null, Null)
  /\ UNCHANGED <<eState, eCall, nowMs, devTimeOffsetSeconds, stateGeneration, userHash,
                 challengeStats, todayCheckins, opsLeft, rateLimit,
                 challengeConfig, posts>>

\* await redis.del(leaderboard, usernames, challengeStats, participants)
ResetDelete(p) ==
  /\ proc[p].pc = "reset_delete"
  /\ leaderboard' = [u \in Users |-> <<>>]
  /\ challengeStats' = <<>>
  /\ participants' = {}
  /\ Respond(p, 200, "ok", Null, Null)
  /\ UNCHANGED <<eState, eCall, nowMs, devTimeOffsetSeconds, stateGeneration, userHash,
                 todayCheckins, opsLeft, rateLimit,
                 challengeConfig, posts>>

(***************************************************************************)
(* POST /dev/time -> setDevTimeOffsetSeconds, and the wall clock           *)
(***************************************************************************)
\* await redis.hSet(devSettings, { devTimeOffsetSeconds, devDayOffset })
SetDevTimeOffsetSeconds(p, seconds) ==
  /\ FirstFree(p)
  /\ opsLeft > 0
  /\ opsLeft' = opsLeft - 1
  /\ seconds # devTimeOffsetSeconds
  /\ devTimeOffsetSeconds' = seconds
  /\ proc' = [proc EXCEPT ![p] =
                [Idle EXCEPT !.op = "devTime",
                             !.response = Response(200, "ok", Null, Null)]]
  /\ UNCHANGED <<eState, eCall, nowMs, stateGeneration, userHash, leaderboard,
                 participants, challengeStats, todayCheckins, rateLimit,
                 challengeConfig, posts>>

\* A day of wall-clock time passes.
Tick ==
  /\ nowMs < StartMs + MaxWallDays * MILLISECONDS_PER_DAY
  /\ nowMs' = nowMs + MILLISECONDS_PER_DAY
  /\ UNCHANGED <<eState, eCall, devTimeOffsetSeconds, stateGeneration, userHash, leaderboard,
                 participants, challengeStats, todayCheckins, proc, opsLeft, rateLimit,
                 challengeConfig, posts>>

(***************************************************************************)
(* The store specification                                                 *)
(***************************************************************************)
Init ==
  /\ StoreInit
  /\ opsLeft = MaxOps
  /\ eState = initialState(0, "public")
  /\ eCall = plainCall("join")

JoinStep(p) ==
  \/ \E u \in Users, privacy \in Privacy : JoinStart(p, u, privacy)
  \/ \E u \in Users : JoinRateLimited(p, u)
  \/ JoinGetGeneration(p)
  \/ JoinReadUser(p)
  \/ JoinSetGeneration(p)
  \/ JoinWriteUser(p)
  \/ JoinSyncLeaderboard(p)
  \/ JoinAddParticipant(p)
  \/ JoinReadToday(p)
  \/ JoinReadStats(p)
  \/ JoinWriteStats(p)

PrivacyStep(p) ==
  \/ \E u \in Users, privacy \in Privacy : PrivacyStart(p, u, privacy)
  \/ PrivacyGetGeneration(p)
  \/ PrivacyReadUser(p)
  \/ PrivacySetGeneration(p)
  \/ PrivacyWriteUser(p)
  \/ PrivacySyncLeaderboard(p)

CheckinStep(p) ==
  \/ \E u \in Users : CheckinStart(p, u)
  \/ \E u \in Users : CheckinRateLimited(p, u)
  \/ CheckinGetGeneration(p)
  \/ CheckinReadUser(p)
  \/ RecordGetGeneration(p)
  \/ RecordReadUser(p)
  \/ RecordSetGeneration(p)
  \/ RecordWriteUser(p)
  \/ RecordSyncLeaderboard(p)
  \/ RecordAddToday(p)
  \/ RecordLenToday(p)
  \/ RecordReadStats(p)
  \/ RecordWriteStats(p)
  \/ RecordPrune(p)

ConfigStep(p) ==
  \/ ConfigStart(p)
  \/ ConfigReadStats(p)
  \/ ConfigLenToday(p)
  \/ ConfigWriteStats(p)

ResetStep(p) ==
  \/ ResetStart(p)
  \/ ResetOffsets(p)
  \/ ResetDelete(p)

Next ==
  \/ \E p \in Procs : JoinStep(p)
  \/ \E p \in Procs : PrivacyStep(p)
  \/ \E p \in Procs : CheckinStep(p)
  \/ \E p \in Procs : ConfigStep(p)
  \/ \E p \in Procs : ResetStep(p)
  \/ \E p \in Procs, seconds \in OffsetChoices : SetDevTimeOffsetSeconds(p, seconds)
  \/ Tick

Spec == Init /\ [][Next]_vars

(***************************************************************************)
(* One-at-a-time specification: the same handlers, each request running to *)
(* its response before the next one starts.                                *)
(***************************************************************************)
SeqInit ==
  /\ StoreInit
  /\ opsLeft = MaxSeqOps
  /\ eState = initialState(0, "public")
  /\ eCall = plainCall("join")

SeqNext ==
  \/ JoinStep(1)
  \/ PrivacyStep(1)
  \/ CheckinStep(1)
  \/ ConfigStep(1)
  \/ ResetStep(1)
  \/ \E seconds \in OffsetChoices : SetDevTimeOffsetSeconds(1, seconds)
  \/ Tick

SeqSpec == SeqInit /\ [][SeqNext]_vars

(***************************************************************************)
(* Joined-users specifications: every user has joined (publicly, one after *)
(* the other, at the start time); requests then run in flight together.    *)
(***************************************************************************)
RECURSIVE statsAfterJoins(_, _)
\* The stats hash after n first-time joins on todayDay: n times
\* updateChallengeStats(subredditId, today, { incrementParticipants: true })
statsAfterJoins(n, todayDay) ==
  IF n = 0
  THEN createEmptyAggregateStats(todayDay)
  ELSE applyAggregateStatsMutation(statsAfterJoins(n - 1, todayDay), todayDay,
         [ incrementParticipants |-> TRUE,
           incrementCheckins     |-> FALSE,
           bestStreakCandidate   |-> <<>> ])

JoinedInit ==
  /\ nowMs = StartMs
  /\ devTimeOffsetSeconds = 0
  /\ stateGeneration = 0
  /\ userHash = [u \in Users |->
                   <<serializeUserState(initialState(StartMs, "public"), 0)>>]
  /\ leaderboard = [u \in Users |-> <<0>>]
  /\ participants = Users
  /\ challengeStats =
       serializeAggregateStatsRecord(
         statsAfterJoins(Cardinality(Users),
                         getUtcNowFromBaseMs(StartMs, 0).utcDayNumber))
  /\ todayCheckins = {}
  /\ rateLimit = NoAttempts
  /\ challengeConfig = <<>>
  /\ posts = <<>>
  /\ proc = [p \in Procs |-> Idle]
  /\ opsLeft = MaxJoinedOps
  /\ eState = initialState(0, "public")
  /\ eCall = plainCall("join")

\* Check-in requests in flight together, over the days the clock passes.
CheckinRaceNext ==
  \/ \E p \in Procs : CheckinStep(p)
  \/ Tick

CheckinRaceSpec == JoinedInit /\ [][CheckinRaceNext]_vars

\* Check-ins, privacy changes and resets in flight together, within one day.
ResetRaceNext ==
  \/ \E p \in Procs : PrivacyStep(p)
  \/ \E p \in Procs : CheckinStep(p)
  \/ \E p \in Procs : ResetStep(p)

ResetRaceSpec == JoinedInit /\ [][ResetRaceNext]_vars

(***************************************************************************)
(* What a read of the store returns in the present state                   *)
(***************************************************************************)
\* getUserState(subredditId, userId)
getUserStateOf(u) == deserializeUserState(userHash[u], stateGeneration)

\* getChallengeStats(subredditId, today), today = getTodayDayNumber
getChallengeStatsNow ==
  syncedStats(parseAggregateStatsRecord(challengeStats, getTodayDayNumber),
              getTodayDayNumber, todaySetSizeOf(getTodayDayNumber))

\* No request is in flight.
Quiet == \A p \in Procs : proc[p].pc = "idle"

\* The records the handlers keep: user states, leaderboard index,
\* participants, aggregate stats and day-membership sets.
records == <<userHash, leaderboard, participants, challengeStats, todayCheckins>>

(***************************************************************************)
(* The last call of the engine specification, when it was a check-in       *)
(***************************************************************************)
CheckInReturned == eCall.op = "checkIn" /\ ~eCall.threw
CheckInThrew == eCall.op = "checkIn" /\ eCall.threw
CallBefore == eCall.before[1]
CallDay == eCall.day[1]
CallMetadata == eCall.metadata[1]
CallGap == IF CallBefore.lastCheckinDayUTC = Null
           THEN 0
           ELSE CallDay - CallBefore.lastCheckinDayUTC[1]

(***************************************************************************)
(* C1: applyCheckIn(state, day) fails with AlreadyCheckedIn, and produces  *)
(* no new state, exactly when lastCheckinDayUTC is set and day is at or    *)
(* before it (canCheckIn is false); a check-in that succeeded for day d    *)
(* fails when applied again to its result with the same d.                 *)
(***************************************************************************)
C1_AlreadyCheckedIn ==
  /\ \A day \in EngineDays :
       LET result == applyCheckInWithMetadata(eState, day)
       IN  /\ result.threw <=>
                 /\ eState.lastCheckinDayUTC # Null
                 /\ day <= eState.lastCheckinDayUTC[1]
           /\ result.threw <=> ~canCheckIn(eState, day)
           /\ result.threw => result.state = Null /\ result.metadata = Null
           /\ ~result.threw => applyCheckInWithMetadata(result.state, day).threw
  /\ CheckInThrew => eState = CallBefore
  /\ CheckInReturned => applyCheckInWithMetadata(eState, CallDay).threw

\* A same-day resubmission was rejected after a check-in that counted.
C1_Witness ==
  /\ CheckInThrew
  /\ eState.lastCheckinDayUTC = <<CallDay>>
  /\ eState.currentStreak >= 2

(***************************************************************************)
(* C2: within one generation, for every user and over any sequence, also   *)
(* interleaved, of join, setPrivacy, recordCheckIn and clock-offset        *)
(* operations, every change of the persisted lastCheckinDayUTC strictly    *)
(* increases it (unset counting as before every day): the stored record    *)
(* never moves back to an earlier day or to no check-in.                   *)
(***************************************************************************)
C2_LastCheckinDayOnlyIncreases ==
  [][ \A u \in Users :
        ( /\ userHash[u] # <<>>
          /\ userHash'[u] # <<>>
          /\ userHash'[u][1].stateGeneration = userHash[u][1].stateGeneration )
        => userHash'[u][1].lastCheckinDayUTC >= userHash[u][1].lastCheckinDayUTC ]_vars

(***************************************************************************)
(* C3: in every UserState reachable from join through check-ins and        *)
(* privacy changes, lastCheckinDayUTC is unset iff currentStreak = 0 iff   *)
(* streakStartDayUTC is unset.                                             *)
(***************************************************************************)
C3_UnsetTogether ==
  /\ (eState.lastCheckinDayUTC = Null) <=> (eState.currentStreak = 0)
  /\ (eState.currentStreak = 0) <=> (eState.streakStartDayUTC = Null)

\* A privacy change made after a streak was broken and restarted.
C3_Witness ==
  /\ eCall.op = "setPrivacy"
  /\ eState.currentStreak = 1
  /\ eState.bestStreak >= 2
  /\ eState.streakStartDayUTC = eState.lastCheckinDayUTC

(***************************************************************************)
(* C4: from every reachable UserState with lastCheckinDayUTC set, a        *)
(* check-in on day lastCheckinDayUTC + 1 adds 1 to currentStreak, keeps    *)
(* streakStartDayUTC and consumes no freeze token (usedFreeze false,       *)
(* freezeSaves unchanged).                                                 *)
(***************************************************************************)
C4_ConsecutiveDay ==
  eState.lastCheckinDayUTC # Null =>
    LET result == applyCheckInWithMetadata(eState, eState.lastCheckinDayUTC[1] + 1)
    IN  /\ ~result.threw
        /\ result.state.currentStreak = eState.currentStreak + 1
        /\ result.state.streakStartDayUTC = eState.streakStartDayUTC
        /\ result.metadata.usedFreeze = FALSE
        /\ result.state.freezeSaves = eState.freezeSaves

\* A consecutive-day check-in made while holding a freeze token.
C4_Witness ==
  /\ CheckInReturned
  /\ CallGap = 1
  /\ CallBefore.freezeTokens > 0
  /\ eState.currentStreak = CallBefore.currentStreak + 1

(***************************************************************************)
(* C5 as claimed: a check-in on day lastCheckinDayUTC + 2 with a freeze    *)
(* token continues the streak with freezeTokens' = freezeTokens - 1,       *)
(* freezeSaves' = freezeSaves + 1 and usedFreeze; without a token it       *)
(* restarts the streak at 1 from that day, usedFreeze false, freezeSaves   *)
(* unchanged.                                                              *)
(***************************************************************************)
C5_Original ==
  eState.lastCheckinDayUTC # Null =>
    LET day == eState.lastCheckinDayUTC[1] + 2
        result == applyCheckInWithMetadata(eState, day)
    IN  /\ ~result.threw
        /\ eState.freezeTokens > 0 =>
             /\ result.state.currentStreak = eState.currentStreak + 1
             /\ result.state.streakStartDayUTC = eState.streakStartDayUTC
             /\ result.state.freezeTokens = eState.freezeTokens - 1
             /\ result.state.freezeSaves = eState.freezeSaves + 1
             /\ result.metadata.usedFreeze = TRUE
        /\ eState.freezeTokens = 0 =>
             /\ result.state.currentStreak = 1
             /\ result.state.streakStartDayUTC = <<day>>
             /\ result.metadata.usedFreeze = FALSE
             /\ result.state.freezeSaves = eState.freezeSaves

(***************************************************************************)
(* C5: as C5_Original, except that with a token freezeTokens' is           *)
(* freezeTokens - 1 only when the new currentStreak is not a multiple of   *)
(* 7; when it is, the token earned in the same check-in makes              *)
(* freezeTokens' = freezeTokens.                                           *)
(***************************************************************************)
C5_TwoDayGap ==
  eState.lastCheckinDayUTC # Null =>
    LET day == eState.lastCheckinDayUTC[1] + 2
        result == applyCheckInWithMetadata(eState, day)
    IN  /\ ~result.threw
        /\ eState.freezeTokens > 0 =>
             /\ result.state.currentStreak = eState.currentStreak + 1
             /\ result.state.streakStartDayUTC = eState.streakStartDayUTC
             /\ result.state.freezeTokens =
                  IF (eState.currentStreak + 1) % 7 = 0
                  THEN eState.freezeTokens
                  ELSE eState.freezeTokens - 1
             /\ result.state.freezeSaves = eState.freezeSaves + 1
             /\ result.metadata.usedFreeze = TRUE
        /\ eState.freezeTokens = 0 =>
             /\ result.state.currentStreak = 1
             /\ result.state.streakStartDayUTC = <<day>>
             /\ result.metadata.usedFreeze = FALSE
             /\ result.state.freezeSaves = eState.freezeSaves

\* A two-day gap bridged by a token, landing on a multiple of 7.
C5_Witness ==
  /\ CheckInReturned
  /\ CallGap = 2
  /\ CallBefore.freezeTokens > 0
  /\ CallMetadata.usedFreeze
  /\ eState.currentStreak % 7 = 0
  /\ eState.freezeTokens = CallBefore.freezeTokens

(***************************************************************************)
(* C6: from every UserState with lastCheckinDayUTC set, a check-in on any  *)
(* day >= lastCheckinDayUTC + 3 restarts the streak (currentStreak' = 1,   *)
(* streakStartDayUTC' = day) and leaves freezeTokens and freezeSaves as    *)
(* they were, with usedFreeze and earnedFreeze false, whatever the token   *)
(* count.                                                                  *)
(***************************************************************************)
C6_LongGapResets ==
  eState.lastCheckinDayUTC # Null =>
    \A day \in (eState.lastCheckinDayUTC[1] + 3)..(MaxDay + 3) :
      LET result == applyCheckInWithMetadata(eState, day)
      IN  /\ ~result.threw
          /\ result.state.currentStreak = 1
          /\ result.state.streakStartDayUTC = <<day>>
          /\ result.state.freezeTokens = eState.freezeTokens
          /\ result.state.freezeSaves = eState.freezeSaves
          /\ result.metadata.usedFreeze = FALSE
          /\ result.metadata.earnedFreeze = FALSE

\* A gap of three days or more broke a streak of a user holding tokens.
C6_Witness ==
  /\ CheckInReturned
  /\ CallGap >= 3
  /\ CallBefore.freezeTokens > 0
  /\ CallBefore.currentStreak >= 7
  /\ eState.currentStreak = 1
  /\ eState.freezeTokens = CallBefore.freezeTokens

(***************************************************************************)
(* C7: a successful check-in grants a freeze token (adds exactly 1,        *)
(* earnedFreeze true) iff the new currentStreak is a multiple of 7 and the *)
(* token count after any consumption in the same check-in is below 2;      *)
(* otherwise earning adds nothing and earnedFreeze is false; tokenCount    *)
(* always equals freezeTokens of the returned state.                       *)
(***************************************************************************)
C7_FreezeEarning ==
  \A day \in EngineDays :
    LET result == applyCheckInWithMetadata(eState, day)
        afterUse == IF result.metadata.usedFreeze
                    THEN eState.freezeTokens - 1
                    ELSE eState.freezeTokens
        grant == result.state.currentStreak % 7 = 0 /\ afterUse < 2
    IN  ~result.threw =>
          /\ result.metadata.earnedFreeze <=> grant
          /\ grant => result.state.freezeTokens = afterUse + 1
          /\ ~grant => result.state.freezeTokens = afterUse
          /\ result.metadata.tokenCount = result.state.freezeTokens

\* A token was earned in a check-in that also consumed one.
C7_Witness ==
  /\ CheckInReturned
  /\ CallMetadata.earnedFreeze
  /\ CallMetadata.usedFreeze
  /\ CallMetadata.tokenCount = eState.freezeTokens

(***************************************************************************)
(* C8: freezeTokens stays within 0..2 in every UserState reachable from    *)
(* join by check-ins on increasing days; check-ins on consecutive days     *)
(* from day 0 hold min(2, currentStreak div 7) tokens (1, 2 and 2 at       *)
(* streaks 7, 14 and 21).                                                  *)
(***************************************************************************)
C8_FreezeTokensRange ==
  /\ eState.freezeTokens \in 0..2
  /\ (eState.streakStartDayUTC = <<0>> /\ eState.freezeSaves = 0) =>
       eState.freezeTokens = Min(2, eState.currentStreak \div 7)

\* The 21st consecutive check-in found the cap reached.
C8_Witness ==
  /\ CheckInReturned
  /\ eState.currentStreak = 21
  /\ eState.freezeSaves = 0
  /\ CallBefore.freezeTokens = 2
  /\ eState.freezeTokens = 2

(***************************************************************************)
(* C9: bestStreak >= currentStreak >= 0 in every UserState reachable from  *)
(* join by check-ins and privacy changes.                                  *)
(***************************************************************************)
C9_BestAtLeastCurrent ==
  /\ eState.bestStreak >= eState.currentStreak
  /\ eState.currentStreak >= 0

\* A check-in raised bestStreak together with currentStreak.
C9_Witness ==
  /\ CheckInReturned
  /\ eState.currentStreak >= 2
  /\ eState.bestStreak = eState.currentStreak
  /\ CallBefore.bestStreak < eState.bestStreak

(***************************************************************************)
(* C10: across any sequence of successful check-ins of one user,           *)
(* bestStreak never decreases, also when a gap resets the streak.          *)
(***************************************************************************)
C10_BestStreakMonotonic ==
  [][eState'.bestStreak >= eState.bestStreak]_vars

\* A gap reset the current streak and bestStreak kept its value.
C10_Witness ==
  /\ CheckInReturned
  /\ CallBefore.currentStreak >= 2
  /\ eState.currentStreak = 1
  /\ eState.bestStreak = CallBefore.bestStreak
  /\ eState.bestStreak > eState.currentStreak

(***************************************************************************)
(* C11: across check-ins the badges list only grows and holds no duplicate:*)
(* a check-in appends a badge, and reports it as earnedBadge, exactly when *)
(* the new currentStreak is one of 7, 30, 90, 180, 365 and that milestone's*)
(* badge is not yet held; otherwise badges stay as they were and           *)
(* earnedBadge is null, also when a broken streak reaches the milestone    *)
(* again.                                                                  *)
(***************************************************************************)
C11_BadgesGrowWithoutDuplicates ==
  LET badgeAt == [ streak \in {7, 30, 90, 180, 365} |->
                     CASE streak = 7   -> "Committed"
                       [] streak = 30  -> "Consistent"
                       [] streak = 90  -> "Disciplined"
                       [] streak = 180 -> "Unstoppable"
                       [] streak = 365 -> "Legend" ]
      held(badges, b) == \E i \in 1..Len(badges) : badges[i] = b
  IN  /\ \A i, j \in 1..Len(eState.badges) :
            eState.badges[i] = eState.badges[j] => i = j
      /\ CheckInThrew => eState.badges = CallBefore.badges
      /\ CheckInReturned =>
            IF /\ eState.currentStreak \in DOMAIN badgeAt
               /\ ~held(CallBefore.badges, badgeAt[eState.currentStreak])
            THEN /\ eState.badges =
                      Append(CallBefore.badges, badgeAt[eState.currentStreak])
                 /\ CallMetadata.earnedBadge = <<badgeAt[eState.currentStreak]>>
            ELSE /\ eState.badges = CallBefore.badges
                 /\ CallMetadata.earnedBadge = Null

\* A streak broken after the 7-day badge reaches 7 again: nothing is appended.
C11_Witness ==
  /\ CheckInReturned
  /\ eState.currentStreak = 7
  /\ CallBefore.currentStreak = 6
  /\ CallBefore.badges = <<"Committed">>
  /\ eState.badges = CallBefore.badges
  /\ CallMetadata.earnedBadge = Null

(***************************************************************************)
(* C12: once resetCommunity has completed with nothing else in flight,     *)
(* getUserState returns absent for every user; a user who is absent        *)
(* becomes present again only through that user's own join, and the state  *)
(* that join creates is zeroed (streak 0, no tokens, no badges, no days),  *)
(* whatever the record of the previous generation held.                    *)
(***************************************************************************)
C12_ResetFencesUserState ==
  [][\A u \in Users :
       /\ (proc[1].pc = "reset_delete" /\ proc'[1].pc = "idle")
            => getUserStateOf(u)' = Null
       /\ (getUserStateOf(u) = Null /\ getUserStateOf(u)' # Null)
            => /\ proc[1].op = "join"
               /\ proc[1].user = u
               /\ getUserStateOf(u)'[1].currentStreak = 0
               /\ getUserStateOf(u)'[1].bestStreak = 0
               /\ getUserStateOf(u)'[1].streakStartDayUTC = Null
               /\ getUserStateOf(u)'[1].lastCheckinDayUTC = Null
               /\ getUserStateOf(u)'[1].freezeTokens = 0
               /\ getUserStateOf(u)'[1].freezeSaves = 0
               /\ getUserStateOf(u)'[1].badges = <<>>
  ]_vars

\* A user who checked in before the reset has joined again after it.
C12_Witness ==
  \E u \in Users, day \in 0..(2 + MaxWallDays) :
    /\ stateGeneration >= 1
    /\ <<day, u>> \in todayCheckins
    /\ userHash[u] # <<>>
    /\ userHash[u][1].stateGeneration = stateGeneration
    /\ userHash[u][1].currentStreak = 0
    /\ proc[1].op = "join"
    /\ proc[1].user = u
    /\ proc[1].pc = "idle"
    /\ proc[1].response # Null
    /\ proc[1].response[1].status = 200

(***************************************************************************)
(* C13: when resetCommunity advances the generation while a recordCheckIn  *)
(* or setPrivacy that read a pre-reset record is in flight, the UserState  *)
(* that request writes is not visible under the new generation: a user     *)
(* the reset made absent stays absent when the write lands.                *)
(***************************************************************************)
C13_StaleWriteNotVisible ==
  [][\A p \in Procs :
       ( /\ proc[p].pc \in {"record_writeUser", "privacy_writeUser"}
         /\ proc'[p].pc # proc[p].pc
         /\ proc[p].existing # Null
         /\ getUserStateOf(proc[p].user) = Null )
       => getUserStateOf(proc[p].user)' = Null
  ]_vars

(***************************************************************************)
(* C14: once resetCommunity has completed with nothing else in flight, the *)
(* leaderboard is empty, the clock offset is 0, and the aggregate stats    *)
(* read for the current day are empty: participantsTotal, checkinsToday,   *)
(* checkinsAllTime and longestStreakAllTime are 0, also when users had     *)
(* checked in on that day before the reset.                                *)
(***************************************************************************)
C14_ResetClearsIndexAndStats ==
  (proc[1].pc = "idle" /\ proc[1].op = "reset")
  => /\ \A u \in Users : leaderboard[u] = <<>>
     /\ devTimeOffsetSeconds = 0
     /\ getChallengeStatsNow.participantsTotal = 0
     /\ getChallengeStatsNow.checkinsToday = 0
     /\ getChallengeStatsNow.checkinsAllTime = 0
     /\ getChallengeStatsNow.longestStreakAllTime = 0

(***************************************************************************)
(* C15: join is idempotent: a join by a user who has a visible UserState   *)
(* returns that stored state unchanged, whatever privacy argument it was   *)
(* given, and changes neither the UserState, the leaderboard index, the    *)
(* participants set nor participantsTotal.                                 *)
(***************************************************************************)
C15_JoinIdempotent ==
  [][\A u \in Users :
       ( /\ proc[1].op = "join"
         /\ proc[1].user = u
         /\ proc[1].pc \in {"join_getGeneration", "join_readUser"}
         /\ getUserStateOf(u) # Null )
       => /\ (proc[1].pc = "join_readUser" /\ proc' # proc) =>
                /\ proc'[1].pc = "idle"
                /\ proc'[1].response = Response(200, "ok", getUserStateOf(u), Null)
          /\ userHash' = userHash
          /\ leaderboard' = leaderboard
          /\ participants' = participants
          /\ challengeStats' = challengeStats
          /\ getChallengeStatsNow'.participantsTotal
               = getChallengeStatsNow.participantsTotal
  ]_vars

\* A join returned a state that holds a streak and is private: the state of
\* an earlier join, not a new one.
C15_Witness ==
  /\ proc[1].pc = "idle"
  /\ proc[1].op = "join"
  /\ proc[1].response # Null
  /\ proc[1].response[1].status = 200
  /\ proc[1].response[1].state # Null
  /\ proc[1].response[1].state[1].currentStreak = 1
  /\ proc[1].response[1].state[1].privacy = "private"
  /\ proc[1].response[1].state = getUserStateOf(proc[1].user)

(***************************************************************************)
(* C16: after any sequence of joins, check-ins, privacy changes and resets *)
(* run one at a time, participantsTotal read from the aggregate stats      *)
(* equals the number of distinct users who joined in the current           *)
(* generation, the users whose UserState the generation shows.             *)
(***************************************************************************)
C16_ParticipantsTotalCountsJoined ==
  Quiet =>
    getChallengeStatsNow.participantsTotal
      = Cardinality({u \in Users : getUserStateOf(u) # Null})

\* After a reset one user has joined again; the other's record is of the
\* generation before.
C16_Witness ==
  /\ Quiet
  /\ stateGeneration >= 1
  /\ getChallengeStatsNow.participantsTotal = 1
  /\ \E u, v \in Users :
       /\ getUserStateOf(u) # Null
       /\ userHash[v] # <<>>
       /\ userHash[v][1].stateGeneration < stateGeneration

(***************************************************************************)
(* C17: when one user submits two concurrent check-ins for the same day    *)
(* and both read the state as not yet checked in, exactly one of the two   *)
(* is credited: once both have completed, checkinsAllTime is 1 higher than *)
(* before them and checkinsToday counts the user once.  Stated for the     *)
(* first check-ins of a generation-0 community, where checkinsAllTime was  *)
(* 0 before the two attempts.                                              *)
(***************************************************************************)
C17_OneOfTwoCredited ==
  \A u \in Users, day \in 0..(2 + MaxWallDays) :
    ( /\ Quiet
      /\ stateGeneration = 0
      /\ todayCheckins = {<<day, u>>}
      /\ \A p \in {1, 2} :
           /\ proc[p].op = "checkin"
           /\ proc[p].user = u
           /\ proc[p].response # Null
           /\ proc[p].response[1].status = 200
           /\ proc[p].response[1].state[1].lastCheckinDayUTC = <<day>> )
    => /\ challengeStats # <<>>
       /\ challengeStats[1].checkinsAllTime = 1
       /\ challengeStats[1].lastStatsDay = day
       /\ challengeStats[1].checkinsToday = 1

(***************************************************************************)
(* C18: concurrent check-ins by different users on the same day never      *)
(* conflict: under every interleaving of the recordCheckIn calls of k      *)
(* distinct joined users, once all have completed, each user's UserState   *)
(* is the result of that user's own check-in, checkinsAllTime has grown by *)
(* exactly k and the stored checkinsToday is the size of that day's        *)
(* membership set.  Stated for k = 2 users whose check-ins are the only    *)
(* requests made since they joined.                                        *)
(***************************************************************************)
C18_DifferentUsersNeverConflict ==
  \A day \in 0..(2 + MaxWallDays) :
    ( /\ Quiet
      /\ opsLeft = MaxJoinedOps - 2
      /\ proc[1].user # proc[2].user
      /\ \A p \in {1, 2} :
           /\ proc[p].op = "checkin"
           /\ proc[p].response # Null
           /\ proc[p].response[1].status = 200
           /\ proc[p].response[1].state[1].lastCheckinDayUTC = <<day>> )
    => /\ \A p \in {1, 2} : getUserStateOf(proc[p].user) = proc[p].response[1].state
       /\ challengeStats[1].checkinsAllTime = 2
       /\ challengeStats[1].lastStatsDay = day
       /\ challengeStats[1].checkinsToday = todaySetSizeOf(day)

(***************************************************************************)
(* C19: a check-in for a user whose UserState shows a check-in on that day *)
(* or on a later day fails and is a no-op for every counter and record:    *)
(* UserState, day-membership set, leaderboard index, checkinsToday,        *)
(* checkinsAllTime and longestStreakAllTime are unchanged.  This holds at  *)
(* the route's read of the state and at recordCheckIn's own read.          *)
(***************************************************************************)
C19_DuplicateCheckInIsNoOp ==
  [][\A p \in Procs :
       LET stored == userHash[proc[p].user]
       IN  ( /\ proc[p].pc \in {"checkin_readUser", "record_readUser"}
             /\ proc'[p] # proc[p]
             /\ stored # <<>>
             /\ stored[1].stateGeneration = proc[p].gen
             /\ stored[1].lastCheckinDayUTC >= proc[p].today )
           => /\ proc'[p].pc = "idle"
              /\ proc'[p].response[1].status # 200
              /\ proc'[p].response[1].metadata = Null
              /\ userHash' = userHash
              /\ todayCheckins' = todayCheckins
              /\ leaderboard' = leaderboard
              /\ challengeStats' = challengeStats
              /\ participants' = participants
  ]_vars

\* recordCheckIn itself met the day already checked in (the route's read
\* came before the other request's write) and threw.
C19_Witness ==
  \E p \in Procs :
    /\ proc[p].pc = "idle"
    /\ proc[p].op = "checkin"
    /\ proc[p].response # Null
    /\ proc[p].response[1].code = "CHECKIN_FAILED"
    /\ getUserStateOf(proc[p].user) # Null
    /\ getUserStateOf(proc[p].user)[1].lastCheckinDayUTC # Null

(***************************************************************************)
(* C20: recordCheckIn, the check-in route and setPrivacy, for a user with  *)
(* no visible UserState (no record, or a record of another generation),    *)
(* return no result and write nothing: no UserState, leaderboard entry,    *)
(* day-membership entry or stats change.                                   *)
(***************************************************************************)
C20_NotJoinedWritesNothing ==
  [][\A p \in Procs :
       LET stored == userHash[proc[p].user]
       IN  ( /\ proc[p].pc \in {"privacy_readUser", "checkin_readUser",
                                 "record_readUser"}
             /\ proc'[p] # proc[p]
             /\ \/ stored = <<>>
                \/ stored[1].stateGeneration # proc[p].gen )
           => /\ proc'[p].pc = "idle"
              /\ proc'[p].response[1].status # 200
              /\ proc'[p].response[1].state = Null
              /\ proc'[p].response[1].metadata = Null
              /\ userHash' = userHash
              /\ todayCheckins' = todayCheckins
              /\ leaderboard' = leaderboard
              /\ challengeStats' = challengeStats
              /\ participants' = participants
  ]_vars

\* recordCheckIn returned null: the user's record is of a generation that a
\* reset ended after the route had read it.
C20_Witness ==
  \E p \in Procs :
    /\ proc[p].pc = "idle"
    /\ proc[p].op = "checkin"
    /\ proc[p].response # Null
    /\ proc[p].response[1].code = "CHECKIN_SAVE_FAILED"
    /\ userHash[proc[p].user] # <<>>
    /\ getUserStateOf(proc[p].user) = Null

(***************************************************************************)
(* C21: every check-in request rejected because the user already checked   *)
(* in for the effective day, or because the effective day is at or before  *)
(* the last recorded check-in day, is answered with HTTP 409 carrying the  *)
(* user's current state and changes no user state or counter; also when    *)
(* the rejection is detected only inside recordCheckIn, after a concurrent *)
(* request of the same user got in first.                                  *)
(***************************************************************************)
C21_DuplicateCheckInIsConflict ==
  [][\A p \in Procs :
       LET stored == userHash[proc[p].user]
       IN  ( /\ proc[p].pc \in {"checkin_readUser", "record_readUser"}
             /\ proc'[p] # proc[p]
             /\ stored # <<>>
             /\ stored[1].stateGeneration = proc[p].gen
             /\ stored[1].lastCheckinDayUTC >= proc[p].today )
           => /\ proc'[p].pc = "idle"
              /\ proc'[p].response[1].status = 409
              /\ proc'[p].response[1].state = getUserStateOf(proc[p].user)
              /\ userHash' = userHash
              /\ todayCheckins' = todayCheckins
              /\ leaderboard' = leaderboard
              /\ challengeStats' = challengeStats
  ]_vars

(***************************************************************************)
(* Clock specification: getUtcNow at chosen instants around the day        *)
(* boundaries, under every dev offset of ClockOffsets.                     *)
(***************************************************************************)
\* Wall-clock instants lie in the UTC days 0..MaxClockDays.
MaxClockDays == 2

\* Milliseconds into a day: midnight, just after it, around a second's
\* end, noon, 30 s before midnight, and the day's last second and last ms.
ClockMsIntoDay ==
  {0, 1, 999, 1000, 43200000, MILLISECONDS_PER_DAY - 30000,
   MILLISECONDS_PER_DAY - 1000, MILLISECONDS_PER_DAY - 999, MILLISECONDS_PER_DAY - 1}

ClockInstants ==
  {day * MILLISECONDS_PER_DAY + ms : day \in 0..MaxClockDays, ms \in ClockMsIntoDay}

\* devTimeOffsetSeconds values: a day back or ahead, and seconds around zero.
ClockOffsets == {-86400, -40, -1, 0, 1, 30, 40, 86400}

\* getUtcNow(subredditId, now): reads the stored offset, then
\* getUtcNowFromBaseMs(now.getTime(), offsetSeconds).  `before` is what the
\* previous call was, without what came before it.
utcNowCall(baseUtcMs, offsetSeconds, before) ==
  [ op            |-> "getUtcNow",
    baseUtcMs     |-> baseUtcMs,
    offsetSeconds |-> offsetSeconds,
    before        |-> before,
    result        |-> getUtcNowFromBaseMs(baseUtcMs, offsetSeconds) ]

ClockInit ==
  /\ devTimeOffsetSeconds = 0
  /\ stateGeneration = 0
  /\ userHash = [u \in Users |-> <<>>]
  /\ leaderboard = [u \in Users |-> <<>>]
  /\ participants = {}
  /\ challengeStats = <<>>
  /\ todayCheckins = {}
  /\ rateLimit = NoAttempts
  /\ challengeConfig = <<>>
  /\ posts = <<>>
  /\ proc = [p \in Procs |-> Idle]
  /\ opsLeft = 0
  /\ eState = initialState(0, "public")
  /\ \E ms \in ClockInstants :
       /\ nowMs = ms
       /\ eCall = utcNowCall(ms, 0, Null)

\* The stored offset is set to another value, then getUtcNow is called.
ClockSetOffset(seconds) ==
  /\ seconds # devTimeOffsetSeconds
  /\ devTimeOffsetSeconds' = seconds
  /\ eCall' = utcNowCall(nowMs, seconds, <<[eCall EXCEPT !.before = Null]>>)
  /\ UNCHANGED <<eState, nowMs, stateGeneration, userHash, leaderboard,
                 participants, challengeStats, todayCheckins, proc, opsLeft, rateLimit,
                 challengeConfig, posts>>

\* Wall-clock time passes to a later instant, then getUtcNow is called.
ClockAdvance(ms) ==
  /\ ms > nowMs
  /\ nowMs' = ms
  /\ eCall' = utcNowCall(ms, devTimeOffsetSeconds, <<[eCall EXCEPT !.before = Null]>>)
  /\ UNCHANGED <<eState, devTimeOffsetSeconds, stateGeneration, userHash, leaderboard,
                 participants, challengeStats, todayCheckins, proc, opsLeft, rateLimit,
                 challengeConfig, posts>>

ClockNext ==
  \/ \E seconds \in ClockOffsets : ClockSetOffset(seconds)
  \/ \E ms \in ClockInstants : ClockAdvance(ms)

ClockSpec == ClockInit /\ [][ClockNext]_vars

(***************************************************************************)
(* C22: for every base instant (ms) and every integer offset in seconds,   *)
(* now() returns dayNumber = floor(shifted / 86,400,000), where shifted =  *)
(* instant + offset * 1000, and secondsUntilReset = floor(((dayNumber + 1) *)
(* * 86,400,000 - shifted) / 1000), which lies in 0..86,400.  Shifting the *)
(* offset across one day boundary advances dayNumber by exactly one: 30 s  *)
(* before midnight plus 40 s gives the next day with 86,390 s remaining.   *)
(* The floors are stated by their bounds, not by the division.             *)
(***************************************************************************)
C22_NowDayAndSecondsUntilReset ==
  eCall.op = "getUtcNow" =>
    LET shifted == eCall.baseUtcMs + eCall.offsetSeconds * 1000
        day == eCall.result.utcDayNumber
        seconds == eCall.result.secondsUntilReset
        untilReset == (day + 1) * MILLISECONDS_PER_DAY - shifted
    IN  /\ eCall.result.utcMs = shifted
        /\ day * MILLISECONDS_PER_DAY <= shifted
        /\ shifted < (day + 1) * MILLISECONDS_PER_DAY
        /\ seconds * 1000 <= untilReset
        /\ untilReset < (seconds + 1) * 1000
        /\ seconds \in 0..86400
        /\ eCall.before # Null =>
             LET before == eCall.before[1]
                 shiftedBefore == before.baseUtcMs + before.offsetSeconds * 1000
                 nextReset == (before.result.utcDayNumber + 1) * MILLISECONDS_PER_DAY
             IN  /\ ( /\ shiftedBefore < shifted
                      /\ nextReset <= shifted
                      /\ shifted < nextReset + MILLISECONDS_PER_DAY )
                    => day = before.result.utcDayNumber + 1
                 /\ ( /\ before.baseUtcMs = eCall.baseUtcMs
                      /\ before.result.secondsUntilReset = 30
                      /\ nextReset - shiftedBefore = 30000
                      /\ eCall.offsetSeconds = before.offsetSeconds + 40 )
                    => /\ day = before.result.utcDayNumber + 1
                       /\ seconds = 86390

\* The offset went from 0 to 40 s at 30 s before midnight.
C22_Witness ==
  /\ eCall.op = "getUtcNow"
  /\ eCall.before # Null
  /\ eCall.before[1].offsetSeconds = 0
  /\ eCall.before[1].result.secondsUntilReset = 30
  /\ eCall.before[1].baseUtcMs = eCall.baseUtcMs
  /\ eCall.offsetSeconds = 40
  /\ eCall.result.utcDayNumber = eCall.before[1].result.utcDayNumber + 1
  /\ eCall.result.secondsUntilReset = 86390

(***************************************************************************)
(* Throttle specification: checkActionRateLimit called for one attempt     *)
(* after another, at timestamps that never go back.                        *)
(***************************************************************************)
\* Number of attempts in a behaviour.
MaxAttempts == 4

\* Milliseconds between one attempt and the next.
ThrottleSteps == {0, 1, ACTION_THROTTLE_WINDOW_MS - 1, ACTION_THROTTLE_WINDOW_MS}

\* raw ? Number.parseInt(raw, 10) : null, of a field written as String(nowMs)
parseAttemptMs(raw) == IF raw = Null THEN Null ELSE <<raw[1]>>

\* checkActionRateLimit(subredditId, userId, action, nowMs): what it read,
\* decided and left in the hash.  `earlier` holds, per user and action, the
\* timestamps of the attempts allowed before this one, `allowed` those with
\* this one.
throttleCall(userId, action, atMs, earlier) ==
  LET field == rateLimitField(action)
      lastAttemptMs == parseAttemptMs(rateLimit[userId][field])
      decision == evaluateActionThrottle(atMs, lastAttemptMs,
                                         ACTION_THROTTLE_WINDOW_MS)
  IN  [ op       |-> "checkActionRateLimit",
        userId   |-> userId,
        action   |-> action,
        atMs     |-> atMs,
        before   |-> rateLimit[userId],
        decision |-> decision,
        earlier  |-> earlier,
        allowed  |-> IF decision.allowed
                     THEN [earlier EXCEPT ![<<userId, action>>] = @ \cup {atMs}]
                     ELSE earlier ]

ThrottleInit ==
  /\ StoreInit
  /\ opsLeft = MaxAttempts
  /\ eState = initialState(0, "public")
  /\ eCall = [ op       |-> "none",
               userId   |-> "none",
               action   |-> "none",
               atMs     |-> StartMs,
               before   |-> NoAttempts["t2_a"],
               decision |-> [allowed |-> TRUE, retryAfterMs |-> 0],
               earlier  |-> [k \in Users \X ActionTypes |-> {}],
               allowed  |-> [k \in Users \X ActionTypes |-> {}] ]

\* One attempt, `step` ms after the one before: hGet, evaluateActionThrottle
\* and, when allowed, hSet of the field to String(nowMs).
CheckActionRateLimit(userId, action, step) ==
  /\ opsLeft > 0
  /\ opsLeft' = opsLeft - 1
  /\ nowMs' = nowMs + step
  /\ LET call == throttleCall(userId, action, nowMs + step, eCall.allowed)
     IN  /\ eCall' = call
         /\ rateLimit' =
              IF call.decision.allowed
              THEN [rateLimit EXCEPT ![userId][rateLimitField(action)] = <<nowMs + step>>]
              ELSE rateLimit
  /\ UNCHANGED <<eState, devTimeOffsetSeconds, stateGeneration, userHash, leaderboard,
                 participants, challengeStats, todayCheckins, proc,
                 challengeConfig, posts>>

ThrottleNext ==
  \E userId \in Users, action \in ActionTypes, step \in ThrottleSteps :
    CheckActionRateLimit(userId, action, step)

ThrottleSpec == ThrottleInit /\ [][ThrottleNext]_vars

(***************************************************************************)
(* C23: for one user and one action, over any sequence of attempts with    *)
(* non-decreasing timestamps made one at a time, an attempt is allowed if  *)
(* and only if no earlier allowed attempt lies less than 2000 ms before    *)
(* it.  A denied attempt reports retryAfterMs = 2000 - (now - last allowed *)
(* attempt), a value in 1..2000, and leaves the recorded timestamp as it   *)
(* was; an allowed attempt reports retryAfterMs = 0 and records its own    *)
(* timestamp.                                                              *)
(***************************************************************************)
C23_ThrottleWindow ==
  eCall.op = "checkActionRateLimit" =>
    LET field == rateLimitField(eCall.action)
        earlier == eCall.earlier[<<eCall.userId, eCall.action>>]
        recorded == rateLimit[eCall.userId][field]
    IN  /\ eCall.decision.allowed
             <=> \A t \in earlier : eCall.atMs - t >= 2000
        /\ ~eCall.decision.allowed =>
             /\ \E last \in earlier :
                  /\ \A t \in earlier : t <= last
                  /\ eCall.decision.retryAfterMs = 2000 - (eCall.atMs - last)
             /\ eCall.decision.retryAfterMs \in 1..2000
             /\ recorded = eCall.before[field]
        /\ eCall.decision.allowed =>
             /\ eCall.decision.retryAfterMs = 0
             /\ recorded = <<eCall.atMs>>

\* An attempt 1999 ms after the last allowed one of the same user and
\* action is denied, with one allowed attempt of the other action between.
C23_Witness ==
  /\ eCall.op = "checkActionRateLimit"
  /\ ~eCall.decision.allowed
  /\ eCall.decision.retryAfterMs = 1
  /\ \E other \in ActionTypes \ {eCall.action} :
       /\ eCall.allowed[<<eCall.userId, other>>] # {}
       /\ \A t \in eCall.allowed[<<eCall.userId, eCall.action>>] :
            \E s \in eCall.allowed[<<eCall.userId, other>>] : s > t

(***************************************************************************)
(* Challenge config                                                        *)
(*                                                                         *)
(* A string is kept as its text without the surrounding whitespace, the    *)
(* length of that text, and the number of whitespace characters around it. *)
(***************************************************************************)
Text(text, length) == [ text |-> text, length |-> length, pad |-> 0 ]

\* value.trim()
trim(value) == [value EXCEPT !.pad = 0]

\* value.length
lengthOf(value) == value.length + value.pad

\* TemplateId
TemplateIds == {"custom", "habit_30", "coding_daily", "fitness_daily", "study_daily"}

\* TEMPLATES / TEMPLATE_INDEX
TEMPLATES ==
  [ custom |->
      [ title           |-> Text("Streak Engine", 13),
        description     |-> Text("Join and check in daily. Reset time is 00:00 UTC.", 49),
        badgeThresholds |-> <<3, 7, 14, 30>> ],
    habit_30 |->
      [ title           |-> Text("30-Day Habit Challenge", 22),
        description     |-> Text("Build consistency by checking in every day for 30 days.", 55),
        badgeThresholds |-> <<3, 7, 14, 30>> ],
    coding_daily |->
      [ title           |-> Text("Code Every Day", 14),
        description     |-> Text("Check in after a focused coding session each UTC day.", 53),
        badgeThresholds |-> <<5, 10, 20, 50>> ],
    fitness_daily |->
      [ title           |-> Text("Daily Fitness", 13),
        description     |-> Text("Stay active with one workout check-in per UTC day.", 50),
        badgeThresholds |-> <<3, 7, 21, 60>> ],
    study_daily |->
      [ title           |-> Text("Study Streak", 12),
        description     |-> Text("Check in after completing your study goal for the day.", 54),
        badgeThresholds |-> <<5, 15, 30, 90>> ] ]

\* isTemplateId(value)
isTemplateId(value) == value \in TemplateIds

\* applyTemplateToConfig(templateId), without overrides
applyTemplateToConfig(templateId) ==
  LET template == IF isTemplateId(templateId)
                  THEN TEMPLATES[templateId]
                  ELSE TEMPLATES["custom"]
  IN  [ templateId      |-> IF isTemplateId(templateId) THEN templateId ELSE "custom",
        title           |-> template.title,
        description     |-> template.description,
        badgeThresholds |-> template.badgeThresholds ]

\* Elements of a sequence.
Range(seq) == {seq[i] : i \in DOMAIN seq}

\* Array.from(new Set(values)).sort((a, b) => a - b)
RECURSIVE sortedUnique(_)
sortedUnique(values) ==
  IF values = {}
  THEN <<>>
  ELSE LET least == CHOOSE v \in values : \A w \in values : v <= w
       IN  <<least>> \o sortedUnique(values \ {least})

\* sanitizeBadgeThresholds(value) of an array of numbers: null when nothing
\* positive is left
sanitizeBadgeThresholds(value) ==
  IF value = Null
  THEN Null
  ELSE LET values == {num \in Range(value[1]) : num > 0}
       IN  IF values = {} THEN Null ELSE <<sortedUnique(values)>>

\* parseBadgeThresholds(raw) of a field written by JSON.stringify
parseBadgeThresholds(raw) ==
  IF raw = Null THEN Null ELSE sanitizeBadgeThresholds(raw)

\* parseTimestamp(value, fallback) of a field written as String(number)
parseTimestamp(value, fallback) ==
  IF value = Null
  THEN fallback
  ELSE IF value[1] > 0 THEN value[1] ELSE fallback

\* defaultChallengeConfig(now)
defaultChallengeConfig(now) ==
  LET templateConfig == applyTemplateToConfig("custom")
  IN  [ templateId      |-> templateConfig.templateId,
        title           |-> templateConfig.title,
        description     |-> templateConfig.description,
        timezone        |-> "UTC",
        badgeThresholds |-> templateConfig.badgeThresholds,
        devMode         |-> FALSE,
        activePostId    |-> Null,
        updatedAt       |-> now,
        createdAt       |-> now ]

\* serializeChallengeConfig(config): the hash written to the store
serializeChallengeConfig(config) ==
  << [ templateId      |-> config.templateId,
       title           |-> config.title,
       description     |-> config.description,
       timezone        |-> config.timezone,
       badgeThresholds |-> <<config.badgeThresholds>>,
       devMode         |-> IF config.devMode THEN "1" ELSE "0",
       activePostId    |-> IF config.activePostId = Null
                           THEN ""
                           ELSE config.activePostId[1],
       updatedAt       |-> <<config.updatedAt>>,
       createdAt       |-> <<config.createdAt>> ] >>

\* deserializeChallengeConfig(data, fallbackNow): null for an empty hash
deserializeChallengeConfig(data, fallbackNow) ==
  IF data = <<>>
  THEN Null
  ELSE LET templateId == IF isTemplateId(data[1].templateId)
                         THEN data[1].templateId
                         ELSE "custom"
           templateConfig == applyTemplateToConfig(templateId)
           parsedThresholds == parseBadgeThresholds(data[1].badgeThresholds)
           createdAt == parseTimestamp(data[1].createdAt, fallbackNow)
           updatedAt == parseTimestamp(data[1].updatedAt, createdAt)
       IN  << [ templateId      |-> templateId,
                title           |-> data[1].title,
                description     |-> data[1].description,
                timezone        |-> "UTC",
                badgeThresholds |-> IF parsedThresholds = Null
                                    THEN templateConfig.badgeThresholds
                                    ELSE parsedThresholds[1],
                devMode         |-> data[1].devMode = "1",
                activePostId    |-> IF data[1].activePostId = ""
                                    THEN Null
                                    ELSE <<data[1].activePostId>>,
                updatedAt       |-> updatedAt,
                createdAt       |-> createdAt ] >>

\* ensureChallengeConfig: what it returns for the hash it read
ensuredConfig(data, now) ==
  LET parsed == deserializeChallengeConfig(data, now)
  IN  IF parsed = Null THEN defaultChallengeConfig(now) ELSE parsed[1]

\* setChallengeConfig: the record it writes.  A field of `update` is Null
\* when undefined, <<value>> otherwise (activePostId: <<Null>> for null).
nextChallengeConfig(existing, update, now) ==
  LET nextTemplateId == IF update.templateId = Null
                        THEN existing.templateId
                        ELSE update.templateId[1]
      templateChanged == nextTemplateId # existing.templateId
      templateDefaults == applyTemplateToConfig(nextTemplateId)
      sanitized == sanitizeBadgeThresholds(update.badgeThresholds)
  IN  [ templateId      |-> nextTemplateId,
        title           |-> IF update.title # Null
                            THEN update.title[1]
                            ELSE IF templateChanged
                            THEN templateDefaults.title
                            ELSE existing.title,
        description     |-> IF update.description # Null
                            THEN update.description[1]
                            ELSE IF templateChanged
                            THEN templateDefaults.description
                            ELSE existing.description,
        timezone        |-> "UTC",
        badgeThresholds |-> IF sanitized # Null
                            THEN sanitized[1]
                            ELSE IF templateChanged
                            THEN templateDefaults.badgeThresholds
                            ELSE existing.badgeThresholds,
        devMode         |-> IF update.devMode # Null
                            THEN update.devMode[1]
                            ELSE existing.devMode,
        activePostId    |-> IF update.activePostId # Null
                            THEN update.activePostId[1]
                            ELSE existing.activePostId,
        updatedAt       |-> now,
        createdAt       |-> existing.createdAt ]

\* No field given.
NoUpdate ==
  [ templateId |-> Null, title |-> Null, description |-> Null,
    badgeThresholds |-> Null, devMode |-> Null, activePostId |-> Null ]

\* isSortedUnique(values), of integers
isSortedUnique(values) ==
  \A i \in DOMAIN values :
    /\ values[i] > 0
    /\ i > 1 => values[i] > values[i - 1]

\* The route's validation of title, description and badgeThresholds: the
\* keys of validationDetails
validationDetails(title, description, badgeThresholds) ==
  (IF lengthOf(title) < 3 \/ lengthOf(title) > 120 THEN {"title"} ELSE {})
  \cup (IF lengthOf(description) > 500 THEN {"description"} ELSE {})
  \cup (IF \/ Len(badgeThresholds) = 0
           \/ Len(badgeThresholds) > 10
           \/ \E i \in DOMAIN badgeThresholds : badgeThresholds[i] > 365
           \/ ~isSortedUnique(badgeThresholds)
        THEN {"badgeThresholds"}
        ELSE {})

\* isBlank(value)
isBlank(value) == value.length = 0

\* isConfigSetupRequired(config)
isConfigSetupRequired(config) ==
  LET customDefaults == applyTemplateToConfig("custom")
      genericCustomTitle ==
        /\ config.templateId = "custom"
        /\ \/ isBlank(config.title)
           \/ trim(config.title).text = customDefaults.title.text
      blankContent == isBlank(config.title) \/ isBlank(config.description)
      missingBadges == Len(config.badgeThresholds) = 0
  IN  genericCustomTitle \/ blankContent \/ missingBadges

DEFAULT_POST_TITLE == Text("Streak Challenge", 16)

MAX_POST_TITLE_LENGTH == 120

\* derivePostTitle(inputTitle)
derivePostTitle(inputTitle) ==
  LET normalized == trim(inputTitle)
  IN  IF normalized.length = 0
      THEN DEFAULT_POST_TITLE
      ELSE IF normalized.length <= MAX_POST_TITLE_LENGTH
      THEN normalized
      ELSE [normalized EXCEPT !.length = MAX_POST_TITLE_LENGTH]

(***************************************************************************)
(* POST /config -> setChallengeConfig                                      *)
(***************************************************************************)
\* What the config, post-create and install handlers never write.
notByModerator ==
  <<eState, eCall, nowMs, devTimeOffsetSeconds, stateGeneration, userHash,
    leaderboard, participants, todayCheckins, rateLimit>>

\* A body of POST /config; a field left out is Null.
ConfigRequest(templateId, title, description, badgeThresholds, confirm) ==
  [ templateId            |-> templateId,
    title                 |-> title,
    description           |-> description,
    badgeThresholds       |-> badgeThresholds,
    confirmTemplateChange |-> confirm ]

\* Bodies sent: a template change without and with the confirmation, a
\* title of 2 characters inside whitespace, a description of 501
\* characters, thresholds out of order, a custom title with thresholds,
\* and a templateId that does not exist.
ConfigBodies ==
  { ConfigRequest("habit_30", Null, Null, Null, FALSE),
    ConfigRequest("habit_30", Null, Null, Null, TRUE),
    ConfigRequest("custom", <<[text |-> "Go", length |-> 2, pad |-> 4]>>, Null, Null, FALSE),
    ConfigRequest("habit_30", Null, <<Text("long description", 501)>>, Null, TRUE),
    ConfigRequest("custom", Null, Null, <<<<7, 3>>>>, FALSE),
    ConfigRequest("custom", <<[text |-> "Run Daily", length |-> 9, pad |-> 1]>>, Null,
                  <<<<5, 10>>>>, FALSE),
    ConfigRequest("weekly", Null, Null, Null, TRUE) }

\* context.username and getAccessLevel(context)
AccessLevels == {"anonymous", "member", "mod"}

\* title, description and badgeThresholds as the route takes them from the
\* body or from the template
configFieldsOf(body) ==
  LET templateDefaults == applyTemplateToConfig(body.templateId)
  IN  [ title           |-> IF body.title = Null
                            THEN templateDefaults.title
                            ELSE trim(body.title[1]),
        description     |-> IF body.description = Null
                            THEN templateDefaults.description
                            ELSE trim(body.description[1]),
        badgeThresholds |-> IF body.badgeThresholds = Null
                            THEN templateDefaults.badgeThresholds
                            ELSE body.badgeThresholds[1] ]

\* Object.keys(validationDetails) for a body
invalidFieldsOf(body) ==
  LET fields == configFieldsOf(body)
  IN  validationDetails(fields.title, fields.description, fields.badgeThresholds)

\* requireModAccess failed, or the templateId is none: answered before any
\* store call
SetConfigRefused(p, access, body) ==
  /\ \/ access = "anonymous" /\ Refuse(p, "setConfig", "none", 401, "AUTH_REQUIRED")
     \/ access = "member" /\ Refuse(p, "setConfig", "none", 403, "MODERATOR_REQUIRED")
     \/ /\ access = "mod"
        /\ ~isTemplateId(body.templateId)
        /\ Refuse(p, "setConfig", "none", 400, "INVALID_TEMPLATE_ID")
  /\ UNCHANGED notByModerator
  /\ UNCHANGED <<challengeStats, challengeConfig, posts>>

SetConfigStart(p, body) ==
  /\ isTemplateId(body.templateId)
  /\ FirstFree(p)
  /\ opsLeft > 0
  /\ opsLeft' = opsLeft - 1
  /\ proc' = [proc EXCEPT ![p] =
                [Idle EXCEPT !.pc = "setConfig_ensureRead", !.op = "setConfig",
                             !.body = <<body>>]]
  /\ UNCHANGED notByModerator
  /\ UNCHANGED <<challengeStats, challengeConfig, posts>>

\* ensureChallengeConfig: const existing = await redis.hGetAll(key)
EnsureRead(p, to) ==
  /\ proc' = [proc EXCEPT ![p].config = <<ensuredConfig(challengeConfig, nowMs)>>,
                          ![p].pc = to]
  /\ UNCHANGED notByModerator
  /\ UNCHANGED <<challengeStats, challengeConfig, posts, opsLeft>>

\* ensureChallengeConfig: await redis.hSet(key, serializeChallengeConfig(...))
EnsureWrite(p, to) ==
  /\ challengeConfig' = serializeChallengeConfig(proc[p].config[1])
  /\ Goto(p, to)
  /\ UNCHANGED notByModerator
  /\ UNCHANGED <<challengeStats, posts, opsLeft>>

\* const existingConfig = await getChallengeConfig(subredditId): the read
SetConfigEnsureRead(p) ==
  /\ proc[p].pc = "setConfig_ensureRead"
  /\ EnsureRead(p, "setConfig_ensureWrite")

\* The answer once the template question is settled: 400 with the invalid
\* fields, or on to setChallengeConfig.
SetConfigValidate(p, to) ==
  IF invalidFieldsOf(proc[p].body[1]) # {}
  THEN Respond(p, 400, "INVALID_CONFIG_FIELDS", Null, Null)
  ELSE Goto(p, to)

\* getChallengeConfig's write; then `templateId !== existingConfig.templateId`
SetConfigEnsureWrite(p) ==
  /\ proc[p].pc = "setConfig_ensureWrite"
  /\ challengeConfig' = serializeChallengeConfig(proc[p].config[1])
  /\ IF proc[p].body[1].templateId # proc[p].config[1].templateId
     THEN Goto(p, "setConfig_getToday")
     ELSE SetConfigValidate(p, "setConfig_setRead")
  /\ UNCHANGED notByModerator
  /\ UNCHANGED <<challengeStats, posts, opsLeft>>

\* getParticipantCount: const today = await getTodayDayNumber(subredditId)
SetConfigGetToday(p) ==
  /\ proc[p].pc = "setConfig_getToday"
  /\ proc' = [proc EXCEPT ![p].today = getTodayDayNumber,
                          ![p].pc = "setConfig_readStats"]
  /\ UNCHANGED notByModerator
  /\ UNCHANGED <<challengeStats, challengeConfig, posts, opsLeft>>

\* getChallengeStats: const stored = await redis.hGetAll(statsKey)
SetConfigReadStats(p) ==
  /\ proc[p].pc = "setConfig_readStats"
  /\ proc' = [proc EXCEPT
                ![p].stats = <<parseAggregateStatsRecord(challengeStats, proc[p].today)>>,
                ![p].pc = "setConfig_lenToday"]
  /\ UNCHANGED notByModerator
  /\ UNCHANGED <<challengeStats, challengeConfig, posts, opsLeft>>

\* getChallengeStats: const todaySetSize = await redis.hLen(todayKey)
SetConfigLenToday(p) ==
  /\ proc[p].pc = "setConfig_lenToday"
  /\ proc' = [proc EXCEPT ![p].size = todaySetSizeOf(proc[p].today),
                          ![p].pc = "setConfig_writeStats"]
  /\ UNCHANGED notByModerator
  /\ UNCHANGED <<challengeStats, challengeConfig, posts, opsLeft>>

\* getChallengeStats: hSet of the synced stats; then
\* `participantCount > 0 && !confirmTemplateChange` answers 409
SetConfigWriteStats(p) ==
  /\ proc[p].pc = "setConfig_writeStats"
  /\ LET synced == syncedStats(proc[p].stats[1], proc[p].today, proc[p].size)
     IN  /\ challengeStats' = serializeAggregateStatsRecord(synced)
         /\ IF /\ synced.participantsTotal > 0
               /\ ~proc[p].body[1].confirmTemplateChange
            THEN Respond(p, 409, "TEMPLATE_CHANGE_CONFIRM_REQUIRED", Null, Null)
            ELSE SetConfigValidate(p, "setConfig_setRead")
  /\ UNCHANGED notByModerator
  /\ UNCHANGED <<challengeConfig, posts, opsLeft>>

\* setChallengeConfig: const existing = await ensureChallengeConfig(...)
SetConfigSetRead(p) ==
  /\ proc[p].pc = "setConfig_setRead"
  /\ EnsureRead(p, "setConfig_setWrite")

SetConfigSetWrite(p) ==
  /\ proc[p].pc = "setConfig_setWrite"
  /\ EnsureWrite(p, "setConfig_put")

\* The update the route passes to setChallengeConfig (devMode: the body's
\* is never given, existingConfig.devMode is passed).
configUpdateOf(body, existingConfig) ==
  LET fields == configFieldsOf(body)
  IN  [ templateId      |-> <<body.templateId>>,
        title           |-> <<fields.title>>,
        description     |-> <<fields.description>>,
        badgeThresholds |-> <<fields.badgeThresholds>>,
        devMode         |-> <<existingConfig.devMode>>,
        activePostId    |-> Null ]

\* setChallengeConfig: await redis.hSet(key, serializeChallengeConfig(next))
SetConfigPut(p) ==
  /\ proc[p].pc = "setConfig_put"
  /\ challengeConfig' =
       serializeChallengeConfig(
         nextChallengeConfig(proc[p].config[1],
                             configUpdateOf(proc[p].body[1], proc[p].config[1]),
                             nowMs))
  /\ Respond(p, 200, "ok", Null, Null)
  /\ UNCHANGED notByModerator
  /\ UNCHANGED <<challengeStats, posts, opsLeft>>

SetConfigStep(p) ==
  \/ \E access \in AccessLevels, body \in ConfigBodies : SetConfigRefused(p, access, body)
  \/ \E body \in ConfigBodies : SetConfigStart(p, body)
  \/ SetConfigEnsureRead(p)
  \/ SetConfigEnsureWrite(p)
  \/ SetConfigGetToday(p)
  \/ SetConfigReadStats(p)
  \/ SetConfigLenToday(p)
  \/ SetConfigWriteStats(p)
  \/ SetConfigSetRead(p)
  \/ SetConfigSetWrite(p)
  \/ SetConfigPut(p)

(***************************************************************************)
(* Menu action /post-create and trigger /on-app-install                    *)
(***************************************************************************)
\* The id reddit.submitCustomPost gives the next post.
nextPostId == IF Len(posts) = 0 THEN "t3_1" ELSE IF Len(posts) = 1 THEN "t3_2" ELSE "t3_3"

\* createPost(title): reddit.submitCustomPost({ title: derivePostTitle(title) })
createPost(title) ==
  posts' = Append(posts, [id |-> nextPostId, title |-> derivePostTitle(title)])

\* The handler returns: the post it created or points to stays with its
\* response.
RespondPost(p, status, code, post) ==
  proc' = [proc EXCEPT ![p] =
             [Idle EXCEPT !.op = proc[p].op,
                          !.post = post,
                          !.response = Response(status, code, Null, Null)]]

PostCreateStart(p) ==
  /\ Begin(p, "postCreate", "none", "none", 0, "postCreate_ensureRead")
  /\ UNCHANGED notByModerator
  /\ UNCHANGED <<challengeStats, challengeConfig, posts>>

\* const config = await getChallengeConfig(subredditId): the read
PostCreateEnsureRead(p) ==
  /\ proc[p].pc = "postCreate_ensureRead"
  /\ EnsureRead(p, "postCreate_ensureWrite")

\* getChallengeConfig's write; then `if (config.activePostId)` points to
\* the existing tracker
PostCreateEnsureWrite(p) ==
  /\ proc[p].pc = "postCreate_ensureWrite"
  /\ challengeConfig' = serializeChallengeConfig(proc[p].config[1])
  /\ IF proc[p].config[1].activePostId # Null
     THEN RespondPost(p, 200, "existing", proc[p].config[1].activePostId)
     ELSE Goto(p, "postCreate_createPost")
  /\ UNCHANGED notByModerator
  /\ UNCHANGED <<challengeStats, posts, opsLeft>>

\* const post = await createPost(needsSetup ? 'Set up your challenge
\* template' : config.title)
PostCreateCreatePost(p) ==
  /\ proc[p].pc = "postCreate_createPost"
  /\ createPost(IF isConfigSetupRequired(proc[p].config[1])
                THEN Text("Set up your challenge template", 30)
                ELSE proc[p].config[1].title)
  /\ proc' = [proc EXCEPT ![p].post = <<nextPostId>>,
                          ![p].pc = "postCreate_setRead"]
  /\ UNCHANGED notByModerator
  /\ UNCHANGED <<challengeStats, challengeConfig, opsLeft>>

\* reddit.submitCustomPost throws: the catch answers 400
PostCreateCreatePostFails(p) ==
  /\ proc[p].pc = "postCreate_createPost"
  /\ RespondPost(p, 400, "Failed to create post", Null)
  /\ UNCHANGED notByModerator
  /\ UNCHANGED <<challengeStats, challengeConfig, posts, opsLeft>>

\* setActiveTrackerPostId -> setChallengeConfig: ensureChallengeConfig
PostCreateSetRead(p) ==
  /\ proc[p].pc = "postCreate_setRead"
  /\ EnsureRead(p, "postCreate_setWrite")

PostCreateSetWrite(p) ==
  /\ proc[p].pc = "postCreate_setWrite"
  /\ EnsureWrite(p, "postCreate_put")

\* setChallengeConfig(subredditId, { activePostId: postId }): the hSet
PostCreatePut(p) ==
  /\ proc[p].pc = "postCreate_put"
  /\ challengeConfig' =
       serializeChallengeConfig(
         nextChallengeConfig(proc[p].config[1],
                             [NoUpdate EXCEPT !.activePostId = <<proc[p].post>>],
                             nowMs))
  /\ RespondPost(p, 200, "created", proc[p].post)
  /\ UNCHANGED notByModerator
  /\ UNCHANGED <<challengeStats, posts, opsLeft>>

PostCreateStep(p) ==
  \/ PostCreateStart(p)
  \/ PostCreateEnsureRead(p)
  \/ PostCreateEnsureWrite(p)
  \/ PostCreateCreatePost(p)
  \/ PostCreateCreatePostFails(p)
  \/ PostCreateSetRead(p)
  \/ PostCreateSetWrite(p)
  \/ PostCreatePut(p)

AppInstallStart(p) ==
  /\ Begin(p, "appInstall", "none", "none", 0, "appInstall_ensureRead")
  /\ UNCHANGED notByModerator
  /\ UNCHANGED <<challengeStats, challengeConfig, posts>>

\* const config = await ensureChallengeConfig(context.subredditId)
AppInstallEnsureRead(p) ==
  /\ proc[p].pc = "appInstall_ensureRead"
  /\ EnsureRead(p, "appInstall_ensureWrite")

AppInstallEnsureWrite(p) ==
  /\ proc[p].pc = "appInstall_ensureWrite"
  /\ EnsureWrite(p, "appInstall_createPost")

\* const post = await createPost(config.title)
AppInstallCreatePost(p) ==
  /\ proc[p].pc = "appInstall_createPost"
  /\ createPost(proc[p].config[1].title)
  /\ RespondPost(p, 200, "success", <<nextPostId>>)
  /\ UNCHANGED notByModerator
  /\ UNCHANGED <<challengeStats, challengeConfig, opsLeft>>

\* reddit.submitCustomPost throws: the catch answers 400
AppInstallCreatePostFails(p) ==
  /\ proc[p].pc = "appInstall_createPost"
  /\ RespondPost(p, 400, "Failed to create post", Null)
  /\ UNCHANGED notByModerator
  /\ UNCHANGED <<challengeStats, challengeConfig, posts, opsLeft>>

AppInstallStep(p) ==
  \/ AppInstallStart(p)
  \/ AppInstallEnsureRead(p)
  \/ AppInstallEnsureWrite(p)
  \/ AppInstallCreatePost(p)
  \/ AppInstallCreatePostFails(p)

(***************************************************************************)
(* Moderator specification: config updates, post creation and the install  *)
(* trigger, interleaved, in a community nobody has joined or one that all  *)
(* users have joined.                                                      *)
(***************************************************************************)
\* Number of moderator requests in a behaviour.
MaxModOps == 2

\* Nobody has joined and no key exists; or every user has joined (the store
\* of JoinedInit) and the join route's ensureChallengeConfig has written
\* the default config.
ModInit ==
  /\ nowMs = StartMs
  /\ devTimeOffsetSeconds = 0
  /\ stateGeneration = 0
  /\ todayCheckins = {}
  /\ rateLimit = NoAttempts
  /\ posts = <<>>
  /\ proc = [p \in Procs |-> Idle]
  /\ opsLeft = MaxModOps
  /\ eState = initialState(0, "public")
  /\ eCall = plainCall("join")
  /\ \/ /\ userHash = [u \in Users |-> <<>>]
        /\ leaderboard = [u \in Users |-> <<>>]
        /\ participants = {}
        /\ challengeStats = <<>>
        /\ challengeConfig = <<>>
     \/ /\ userHash = [u \in Users |->
                         <<serializeUserState(initialState(StartMs, "public"), 0)>>]
        /\ leaderboard = [u \in Users |-> <<0>>]
        /\ participants = Users
        /\ challengeStats =
             serializeAggregateStatsRecord(
               statsAfterJoins(Cardinality(Users),
                               getUtcNowFromBaseMs(StartMs, 0).utcDayNumber))
        /\ challengeConfig = serializeChallengeConfig(defaultChallengeConfig(StartMs))

ModNext ==
  \/ \E p \in Procs : SetConfigStep(p)
  \/ \E p \in Procs : PostCreateStep(p)
  \/ \E p \in Procs : AppInstallStep(p)

ModSpec == ModInit /\ [][ModNext]_vars

(***************************************************************************)
(* C24: a POST /config request whose title, description or badge           *)
(* thresholds fail validation is rejected and leaves the stored            *)
(* templateId, title, description and badgeThresholds as they were, and    *)
(* changes no UserState: none of its steps changes the config the store    *)
(* shows.                                                                  *)
(***************************************************************************)
storedConfigFields ==
  LET config == ensuredConfig(challengeConfig, nowMs)
  IN  <<config.templateId, config.title, config.description, config.badgeThresholds>>

C24_RejectedConfigWritesNothing ==
  [][\A p \in Procs :
       ( /\ proc[p].op = "setConfig"
         /\ proc[p].pc # "idle"
         /\ proc'[p] # proc[p]
         /\ invalidFieldsOf(proc[p].body[1]) # {} )
       => /\ storedConfigFields' = storedConfigFields
          /\ userHash' = userHash
  ]_vars

(***************************************************************************)
(* C25: at most one tracker post is created per subreddit: across any      *)
(* sequence or interleaving of create-post and app-install invocations no  *)
(* second tracker post comes into existence.                               *)
(***************************************************************************)
C25_AtMostOneTrackerPost == Len(posts) <= 1

(***************************************************************************)
(* Leaderboard                                                             *)
(***************************************************************************)
\* Number.MAX_SAFE_INTEGER: the largest integer of the checker stands for it
MAX_SAFE_INTEGER == 2147483647

\* The order of user ids under localeCompare.
userIdRank == [t2_a |-> 1, t2_b |-> 2, t2_c |-> 3]

\* a.localeCompare(b)
localeCompare(a, b) ==
  IF userIdRank[a] < userIdRank[b] THEN -1
  ELSE IF userIdRank[a] > userIdRank[b] THEN 1
  ELSE 0

\* a.streakAchievedDayUTC ?? a.lastCheckinDayUTC ?? tieBreakDay
achievedDayOf(entry, tieBreakDay) ==
  IF entry.streakAchievedDayUTC # Null
  THEN entry.streakAchievedDayUTC[1]
  ELSE IF entry.lastCheckinDayUTC # Null
  THEN entry.lastCheckinDayUTC[1]
  ELSE tieBreakDay

\* compareLeaderboardEntries comparing bestStreak ascending
compareLeaderboardEntries_bestAscending(a, b, tieBreakDay) ==
  IF b.currentStreak # a.currentStreak
  THEN b.currentStreak - a.currentStreak
  ELSE IF b.bestStreak # a.bestStreak
  THEN a.bestStreak - b.bestStreak
  ELSE LET aAchieved == achievedDayOf(a, tieBreakDay)
           bAchieved == achievedDayOf(b, tieBreakDay)
       IN  IF aAchieved # bAchieved
           THEN aAchieved - bAchieved
           ELSE localeCompare(a.userId, b.userId)

\* compareLeaderboardEntries(a, b, tieBreakDay)
compareLeaderboardEntries(a, b, tieBreakDay) ==
  IF b.currentStreak # a.currentStreak
  THEN b.currentStreak - a.currentStreak
  ELSE IF b.bestStreak # a.bestStreak
  THEN b.bestStreak - a.bestStreak
  ELSE LET aAchieved == achievedDayOf(a, tieBreakDay)
           bAchieved == achievedDayOf(b, tieBreakDay)
       IN  IF aAchieved # bAchieved
           THEN aAchieved - bAchieved
           ELSE localeCompare(a.userId, b.userId)

\* Array.prototype.sort with the comparator: a stable insertion from the
\* left, every element placed after the last one it does not precede.
RECURSIVE insertEntry(_, _)
insertEntry(sorted, entry) ==
  IF sorted = <<>>
  THEN <<entry>>
  ELSE IF compareLeaderboardEntries(entry, sorted[Len(sorted)], MAX_SAFE_INTEGER) >= 0
  THEN Append(sorted, entry)
  ELSE Append(insertEntry(SubSeq(sorted, 1, Len(sorted) - 1), entry),
              sorted[Len(sorted)])

RECURSIVE sortEntries(_)
sortEntries(entries) ==
  IF entries = <<>>
  THEN <<>>
  ELSE insertEntry(sortEntries(SubSeq(entries, 1, Len(entries) - 1)),
                   entries[Len(entries)])

\* entries.slice(0, limit), limit >= 0
sliceTo(entries, limit) == SubSeq(entries, 1, Min(limit, Len(entries)))

\* The entry getLeaderboard builds from an index member and its UserState.
leaderboardEntry(member, score, userState) ==
  [ userId               |-> member,
    currentStreak        |-> score,
    bestStreak           |-> userState.bestStreak,
    streakAchievedDayUTC |-> userState.lastCheckinDayUTC,
    streakStartDayUTC    |-> userState.streakStartDayUTC,
    lastCheckinDayUTC    |-> userState.lastCheckinDayUTC ]

(***************************************************************************)
(* Comparator specification: three entries with distinct userIds, in every *)
(* order, sorted with compareLeaderboardEntries.                           *)
(***************************************************************************)
\* currentStreak of an entry is in 1..MaxEntryStreak, bestStreak one higher
\* at most.
MaxEntryStreak == 2

\* streakAchievedDayUTC and lastCheckinDayUTC of an entry.
AchievedDays == {Null, <<5>>, <<6>>}

LastDays == {Null, <<6>>}

Entries(userId) ==
  [ userId               : {userId},
    currentStreak        : 1..MaxEntryStreak,
    bestStreak           : MaxEntryStreak..(MaxEntryStreak + 1),
    streakAchievedDayUTC : AchievedDays,
    streakStartDayUTC    : {Null},
    lastCheckinDayUTC    : LastDays ]

\* [...entries].sort(compareLeaderboardEntries)
sortCall(entries) ==
  [ op |-> "sort", entries |-> entries, sorted |-> sortEntries(entries) ]

ComparatorInit ==
  /\ StoreInit
  /\ opsLeft = 0
  /\ eState = initialState(0, "public")
  /\ \E a \in Entries("t2_a"), b \in Entries("t2_b"), c \in Entries("t2_c") :
       eCall = sortCall(<<a, b, c>>)

\* The same entries are given in another order: two neighbours change
\* places.
ComparatorSwap(i) ==
  /\ eCall' = sortCall([eCall.entries EXCEPT ![i] = eCall.entries[i + 1],
                                             ![i + 1] = eCall.entries[i]])
  /\ UNCHANGED eState
  /\ UNCHANGED storeVars

ComparatorNext == \E i \in 1..2 : ComparatorSwap(i)

ComparatorSpec == ComparatorInit /\ [][ComparatorNext]_vars

(***************************************************************************)
(* C27: the leaderboard comparator is a strict total order on entries with *)
(* distinct userIds: it never returns 0 for two of them, it is             *)
(* antisymmetric and transitive, it ranks by currentStreak descending,     *)
(* then bestStreak descending, then achieved day ascending                 *)
(* (streakAchievedDayUTC, else lastCheckinDayUTC, else after every day),   *)
(* then userId ascending, and sorting any permutation of the same entries  *)
(* gives the same list.                                                    *)
(***************************************************************************)
\* a's achieved day is earlier than b's; no day at all is later than any.
achievedEarlier(a, b) ==
  LET dayOf(e) == IF e.streakAchievedDayUTC # Null
                  THEN e.streakAchievedDayUTC
                  ELSE e.lastCheckinDayUTC
  IN  /\ dayOf(a) # Null
      /\ dayOf(b) = Null \/ dayOf(a)[1] < dayOf(b)[1]

\* a ranks before b by the four keys.
ranksBefore(a, b) ==
  \/ a.currentStreak > b.currentStreak
  \/ /\ a.currentStreak = b.currentStreak
     /\ \/ a.bestStreak > b.bestStreak
        \/ /\ a.bestStreak = b.bestStreak
           /\ \/ achievedEarlier(a, b)
              \/ /\ ~achievedEarlier(b, a)
                 /\ userIdRank[a.userId] < userIdRank[b.userId]

C27_ComparatorTotalOrder ==
  eCall.op = "sort" =>
    LET entries == eCall.entries
        n == Len(entries)
        cmp(a, b) == compareLeaderboardEntries(a, b, MAX_SAFE_INTEGER)
        orders == {f \in [1..n -> 1..n] : \A i, j \in 1..n : i # j => f[i] # f[j]}
    IN  /\ \A i, j \in 1..n :
             i # j =>
               /\ cmp(entries[i], entries[j]) # 0
               /\ cmp(entries[i], entries[j]) < 0 <=> cmp(entries[j], entries[i]) > 0
               /\ cmp(entries[i], entries[j]) < 0 <=> ranksBefore(entries[i], entries[j])
        /\ \A i, j, k \in 1..n :
             (cmp(entries[i], entries[j]) < 0 /\ cmp(entries[j], entries[k]) < 0)
               => cmp(entries[i], entries[k]) < 0
        /\ \A f \in orders : sortEntries([i \in 1..n |-> entries[f[i]]]) = eCall.sorted
        /\ \A i, j \in 1..n : i < j => ranksBefore(eCall.sorted[i], eCall.sorted[j])

\* Three entries equal in both streaks: one with an achieved day, one with
\* a last check-in day only, one with no day; given in the reverse of their
\* rank.
C27_Witness ==
  /\ eCall.op = "sort"
  /\ \A i \in 1..3 :
       /\ eCall.entries[i].currentStreak = eCall.entries[1].currentStreak
       /\ eCall.entries[i].bestStreak = eCall.entries[1].bestStreak
  /\ eCall.sorted[1].streakAchievedDayUTC = <<5>>
  /\ eCall.sorted[2].streakAchievedDayUTC = Null
  /\ eCall.sorted[2].lastCheckinDayUTC = <<6>>
  /\ eCall.sorted[3].streakAchievedDayUTC = Null
  /\ eCall.sorted[3].lastCheckinDayUTC = Null
  /\ eCall.entries = <<eCall.sorted[3], eCall.sorted[2], eCall.sorted[1]>>

(***************************************************************************)
(* GET /leaderboard -> getLeaderboard                                      *)
(***************************************************************************)
\* limit values asked for
LimitChoices == {1, 2}

\* redis.zRange(key, 0, count - 1, { by: 'rank', reverse: true }): members
\* by score descending, equal scores by member descending
RECURSIVE zRangeReverse(_, _)
zRangeReverse(members, count) ==
  IF members = {} \/ count = 0
  THEN <<>>
  ELSE LET first == CHOOSE m \in members :
                      \A n \in members :
                        \/ leaderboard[m][1] > leaderboard[n][1]
                        \/ /\ leaderboard[m][1] = leaderboard[n][1]
                           /\ userIdRank[m] >= userIdRank[n]
       IN  <<[member |-> first, score |-> leaderboard[first][1]]>>
             \o zRangeReverse(members \ {first}, count - 1)

\* The handler returns the rows; they stay with its response.
RespondRows(p, rows) ==
  proc' = [proc EXCEPT ![p] =
             [Idle EXCEPT !.op = proc[p].op,
                          !.limit = proc[p].limit,
                          !.rows = rows,
                          !.response = Response(200, "ok", Null, Null)]]

\* getLeaderboard(subredditId, limit): candidateCount and the zRange.  The
\* request is made while no other is in flight.
LeaderboardStart(p, limit) ==
  /\ \A q \in Procs : proc[q].pc = "idle"
  /\ FirstFree(p)
  /\ LET candidateCount == Max(limit * 4, 100)
         ranked == zRangeReverse({u \in Users : leaderboard[u] # <<>>}, candidateCount)
     IN  proc' = [proc EXCEPT ![p] =
                    [Idle EXCEPT !.pc = "leaderboard_getGeneration",
                                 !.op = "leaderboard",
                                 !.limit = limit,
                                 !.ranked = ranked]]
  /\ UNCHANGED <<eState, eCall, nowMs, devTimeOffsetSeconds, stateGeneration, userHash,
                 leaderboard, participants, challengeStats, todayCheckins, rateLimit,
                 challengeConfig, posts, opsLeft>>

\* .filter(...).sort(compareLeaderboardEntries).slice(0, limit)
leaderboardRows(rows, limit) == sliceTo(sortEntries(rows), limit)

\* getUserState of the next candidate: the generation; with no candidate
\* left the rows are returned
LeaderboardGetGeneration(p) ==
  /\ proc[p].pc = "leaderboard_getGeneration"
  /\ IF proc[p].ranked = <<>>
     THEN RespondRows(p, leaderboardRows(proc[p].rows, proc[p].limit))
     ELSE ReadGeneration(p, "leaderboard_readUser")
  /\ UNCHANGED <<eState, eCall, nowMs, devTimeOffsetSeconds, stateGeneration, userHash,
                 leaderboard, participants, challengeStats, todayCheckins, rateLimit,
                 challengeConfig, posts, opsLeft>>

\* getLeaderboard keeping the private users
LeaderboardReadUser_keepPrivate(p) ==
  /\ proc[p].pc = "leaderboard_readUser"
  /\ LET candidate == Head(proc[p].ranked)
         userState == deserializeUserState(userHash[candidate.member], proc[p].gen)
     IN  proc' = [proc EXCEPT
                    ![p].rows = IF userState = Null
                                THEN @
                                ELSE Append(@, leaderboardEntry(candidate.member,
                                                                candidate.score,
                                                                userState[1])),
                    ![p].ranked = Tail(@),
                    ![p].pc = "leaderboard_getGeneration"]
  /\ UNCHANGED <<eState, eCall, nowMs, devTimeOffsetSeconds, stateGeneration, userHash,
                 leaderboard, participants, challengeStats, todayCheckins, rateLimit,
                 challengeConfig, posts, opsLeft>>

\* getUserState of the next candidate: the hash; `if (!userState ||
\* userState.privacy === 'private') return null`, else the entry
LeaderboardReadUser(p) ==
  /\ proc[p].pc = "leaderboard_readUser"
  /\ LET candidate == Head(proc[p].ranked)
         userState == deserializeUserState(userHash[candidate.member], proc[p].gen)
     IN  proc' = [proc EXCEPT
                    ![p].rows = IF userState = Null \/ userState[1].privacy = "private"
                                THEN @
                                ELSE Append(@, leaderboardEntry(candidate.member,
                                                                candidate.score,
                                                                userState[1])),
                    ![p].ranked = Tail(@),
                    ![p].pc = "leaderboard_getGeneration"]
  /\ UNCHANGED <<eState, eCall, nowMs, devTimeOffsetSeconds, stateGeneration, userHash,
                 leaderboard, participants, challengeStats, todayCheckins, rateLimit,
                 challengeConfig, posts, opsLeft>>

LeaderboardStep(p) ==
  \/ \E limit \in LimitChoices : LeaderboardStart(p, limit)
  \/ LeaderboardGetGeneration(p)
  \/ LeaderboardReadUser(p)

(***************************************************************************)
(* Leaderboard specification: privacy changes, check-ins and resets of     *)
(* joined users interleave; the leaderboard is read whenever none of them  *)
(* is in flight, and none starts while it is being read.                   *)
(***************************************************************************)
\* A getLeaderboard call is in flight.
Ranking == \E p \in Procs : proc[p].op = "leaderboard" /\ proc[p].pc # "idle"

RankNext ==
  \/ \E p \in Procs : ~Ranking /\ PrivacyStep(p)
  \/ \E p \in Procs : ~Ranking /\ CheckinStep(p)
  \/ \E p \in Procs : ~Ranking /\ ResetStep(p)
  \/ \E p \in Procs : LeaderboardStep(p)

RankSpec == JoinedInit /\ [][RankNext]_vars

(***************************************************************************)
(* C26: rank(community, limit) returns at most limit entries, no userId    *)
(* twice, and no entry for a user whose UserState is private or absent     *)
(* (stale index entry, previous generation) when it is read; the list is   *)
(* ordered by currentStreak descending, then bestStreak descending, then   *)
(* achieved day ascending, then userId ascending.                          *)
(***************************************************************************)
C26_RankDropsPrivateAndAbsent ==
  [][\A p \in Procs :
       ( /\ proc[p].op = "leaderboard"
         /\ proc[p].pc # "idle"
         /\ proc'[p].pc = "idle" )
       => LET rows == proc'[p].rows
          IN  /\ Len(rows) <= proc[p].limit
              /\ \A i, j \in DOMAIN rows : i # j => rows[i].userId # rows[j].userId
              /\ \A i \in DOMAIN rows :
                   /\ getUserStateOf(rows[i].userId) # Null
                   /\ getUserStateOf(rows[i].userId)[1].privacy = "public"
              /\ \A i, j \in DOMAIN rows : i < j => ranksBefore(rows[i], rows[j])
  ]_vars

\* The index holds a user whose state is private and one who is public:
\* the list returned has the public one only.
C26_Witness ==
  \E p \in Procs, u, v \in Users :
    /\ proc[p].op = "leaderboard"
    /\ proc[p].pc = "idle"
    /\ proc[p].response # Null
    /\ \A q \in Procs : proc[q].pc = "idle"
    /\ leaderboard[u] # <<>>
    /\ getUserStateOf(u) # Null
    /\ getUserStateOf(u)[1].privacy = "private"
    /\ Len(proc[p].rows) = 1
    /\ proc[p].rows[1].userId = v
    /\ proc[p].limit = 2

(***************************************************************************)
(* C28: whenever no operation is in flight, after joins, privacy changes   *)
(* and check-ins in any interleaving, the leaderboard index agrees with    *)
(* UserState for every user with a visible state: a public user is in the  *)
(* index with score equal to the stored currentStreak, and a private user  *)
(* is not in the index.                                                    *)
(***************************************************************************)
C28_IndexAgreesWhenQuiet ==
  ( /\ Quiet
    /\ stateGeneration = 0
    /\ devTimeOffsetSeconds = 0 )
  => \A u \in Users :
       LET userState == getUserStateOf(u)
       IN  userState # Null
           => /\ userState[1].privacy = "public"
                 => leaderboard[u] = <<userState[1].currentStreak>>
              /\ userState[1].privacy = "private"
                 => leaderboard[u] = <<>>

(***************************************************************************)
(* C29: participant counting loses no update under concurrency: under      *)
(* every interleaving of join operations by n distinct users who had not   *)
(* joined (no reset in between), once all joins have completed             *)
(* participantsTotal has grown by exactly n.  Stated for n = 2 users whose *)
(* joins are the only requests made on the empty store.                    *)
(***************************************************************************)
C29_ConcurrentJoinsCountEveryUser ==
  ( /\ Quiet
    /\ opsLeft = MaxOps - 2
    /\ proc[1].user # proc[2].user
    /\ \A p \in {1, 2} :
         /\ proc[p].op = "join"
         /\ proc[p].response # Null
         /\ proc[p].response[1].status = 200 )
  => /\ challengeStats # <<>>
     /\ challengeStats[1].participantsTotal = 2

(***************************************************************************)
(* Stats specification: applyCheckinStatsUpdate applied again and again,   *)
(* first to any stored record, then to its own result                      *)
(***************************************************************************)
\* Calls per behaviour.
MaxStatsCalls == 2

\* Days of the records and of the calls: 0..MaxStatsDay.
MaxStatsDay == 2

\* CheckinStatsInput: wasNewTodayCheckin, todaySetSize, bestStreakCandidate?
CheckinStatsInputs ==
  [ wasNewTodayCheckin  : BOOLEAN,
    todaySetSize        : {-1, 0, 1, 3},
    bestStreakCandidate : {Null, <<0>>, <<1>>, <<3>>} ]

\* AggregateStats records to start from
StoredStats ==
  [ lastStatsDay         : 0..MaxStatsDay,
    participantsTotal    : {0, 3},
    checkinsToday        : 0..2,
    checkinsAllTime      : 0..1,
    longestStreakAllTime : 0..2 ]

\* applyCheckinStatsUpdate(stats, todayDay, input) and what it returned
statsCall(stats, todayDay, input) ==
  [ op       |-> "applyCheckinStatsUpdate",
    stats    |-> stats,
    todayDay |-> todayDay,
    input    |-> input,
    result   |-> applyCheckinStatsUpdate(stats, todayDay, input) ]

StatsInit ==
  /\ StoreInit
  /\ opsLeft = MaxStatsCalls
  /\ eState = initialState(0, "public")
  /\ \E stats \in StoredStats :
       eCall = [ op       |-> "none",
                 stats    |-> stats,
                 todayDay |-> stats.lastStatsDay,
                 input    |-> [ wasNewTodayCheckin  |-> FALSE,
                                todaySetSize        |-> stats.checkinsToday,
                                bestStreakCandidate |-> Null ],
                 result   |-> stats ]

ApplyCheckinStatsUpdate(todayDay, input) ==
  /\ opsLeft > 0
  /\ opsLeft' = opsLeft - 1
  /\ eCall' = statsCall(eCall.result, todayDay, input)
  /\ UNCHANGED <<eState, nowMs, devTimeOffsetSeconds, stateGeneration, userHash,
                 leaderboard, participants, challengeStats, todayCheckins, proc,
                 rateLimit, challengeConfig, posts>>

StatsNext ==
  \E todayDay \in 0..MaxStatsDay, input \in CheckinStatsInputs :
    ApplyCheckinStatsUpdate(todayDay, input)

StatsSpec == StatsInit /\ [][StatsNext]_vars

(***************************************************************************)
(* C30: recordCheckinStats(stats, day, wasNewToday, todaySetSize,          *)
(* candidate) returns checkinsAllTime increased by 1 if wasNewToday and    *)
(* unchanged otherwise, checkinsToday equal to todaySetSize and never      *)
(* negative whatever the previous counter and day were, lastStatsDay =     *)
(* day, longestStreakAllTime = max(previous, candidate) when a candidate   *)
(* is given and the previous value when none is, and participantsTotal     *)
(* unchanged.                                                              *)
(***************************************************************************)
C30_CheckinStatsUpdate ==
  eCall.op = "applyCheckinStatsUpdate" =>
    LET stats == eCall.stats
        input == eCall.input
        result == eCall.result
    IN  /\ result.checkinsAllTime =
             stats.checkinsAllTime + (IF input.wasNewTodayCheckin THEN 1 ELSE 0)
        /\ input.todaySetSize >= 0 => result.checkinsToday = input.todaySetSize
        /\ result.checkinsToday >= 0
        /\ result.lastStatsDay = eCall.todayDay
        /\ input.bestStreakCandidate # Null =>
             /\ result.longestStreakAllTime >= stats.longestStreakAllTime
             /\ result.longestStreakAllTime >= input.bestStreakCandidate[1]
             /\ result.longestStreakAllTime \in
                  {stats.longestStreakAllTime, input.bestStreakCandidate[1]}
        /\ input.bestStreakCandidate = Null =>
             result.longestStreakAllTime = stats.longestStreakAllTime
        /\ result.participantsTotal = stats.participantsTotal

\* A new check-in on a later day than the record's, which held 2 check-ins
\* for its day: the set of the new day has 1 member and the candidate is a
\* new longest streak.
C30_Witness ==
  /\ eCall.op = "applyCheckinStatsUpdate"
  /\ eCall.todayDay > eCall.stats.lastStatsDay
  /\ eCall.stats.checkinsToday = 2
  /\ eCall.input.wasNewTodayCheckin
  /\ eCall.input.todaySetSize = 1
  /\ eCall.input.bestStreakCandidate = <<3>>
  /\ eCall.stats.longestStreakAllTime = 2
  /\ eCall.result.checkinsToday = 1
  /\ eCall.result.longestStreakAllTime = 3

(***************************************************************************)
(* Normalization specification: normalizeAggregateStatsDay applied again   *)
(* and again, first to any stored record, then to its own result           *)
(***************************************************************************)
\* normalizeAggregateStatsDay(stats, todayDay) and what it returned
normalizeCall(stats, todayDay) ==
  [ op       |-> "normalizeAggregateStatsDay",
    stats    |-> stats,
    todayDay |-> todayDay,
    input    |-> [ wasNewTodayCheckin  |-> FALSE,
                   todaySetSize        |-> 0,
                   bestStreakCandidate |-> Null ],
    result   |-> normalizeAggregateStatsDay(stats, todayDay) ]

NormalizeAggregateStatsDay(todayDay) ==
  /\ opsLeft > 0
  /\ opsLeft' = opsLeft - 1
  /\ eCall' = normalizeCall(eCall.result, todayDay)
  /\ UNCHANGED <<eState, nowMs, devTimeOffsetSeconds, stateGeneration, userHash,
                 leaderboard, participants, challengeStats, todayCheckins, proc,
                 rateLimit, challengeConfig, posts>>

NormalizeNext ==
  \E todayDay \in 0..MaxStatsDay : NormalizeAggregateStatsDay(todayDay)

NormalizeSpec == StatsInit /\ [][NormalizeNext]_vars

(***************************************************************************)
(* C31: day-rollover normalization is idempotent and preserves all-time    *)
(* counters: normalize(normalize(s, d), d) = normalize(s, d) for every     *)
(* stats record s and day d; when lastStatsDay already equals d the record *)
(* is unchanged; when it differs only lastStatsDay (set to d) and          *)
(* checkinsToday (set to 0) change, while participantsTotal,               *)
(* checkinsAllTime and longestStreakAllTime are kept.                      *)
(***************************************************************************)
C31_NormalizeIdempotent ==
  eCall.op = "normalizeAggregateStatsDay" =>
    LET stats == eCall.stats
        result == eCall.result
    IN  /\ normalizeAggregateStatsDay(result, eCall.todayDay) = result
        /\ stats.lastStatsDay = eCall.todayDay => result = stats
        /\ stats.lastStatsDay # eCall.todayDay =>
             /\ result.lastStatsDay = eCall.todayDay
             /\ result.checkinsToday = 0
        /\ result.participantsTotal = stats.participantsTotal
        /\ result.checkinsAllTime = stats.checkinsAllTime
        /\ result.longestStreakAllTime = stats.longestStreakAllTime
        /\ DOMAIN result = DOMAIN stats

\* A record of another day holding check-ins of its day and all-time
\* counters is normalized.
C31_Witness ==
  /\ eCall.op = "normalizeAggregateStatsDay"
  /\ eCall.stats.lastStatsDay # eCall.todayDay
  /\ eCall.stats.checkinsToday = 2
  /\ eCall.stats.checkinsAllTime = 1
  /\ eCall.stats.participantsTotal = 3
  /\ eCall.stats.longestStreakAllTime = 2
  /\ eCall.result.checkinsToday = 0
  /\ eCall.result.checkinsAllTime = 1

(***************************************************************************)
(* POST /dev/stats/repair -> repairTodayStats                              *)
(***************************************************************************)
\* The handler returns oldStats, newStats and todaySetSize: they stay with
\* its response.
RespondRepair(p, oldStats, newStats, todaySetSize) ==
  proc' = [proc EXCEPT ![p] =
             [Idle EXCEPT !.op = proc[p].op,
                          !.today = proc[p].today,
                          !.oldStats = <<oldStats>>,
                          !.newStats = <<newStats>>,
                          !.size = todaySetSize,
                          !.response = Response(200, "ok", Null, Null)]]

\* requireModAccess() throws: 401 AUTH_REQUIRED, 403 MODERATOR_REQUIRED
RepairRefused(p, access) ==
  /\ \A q \in Procs : proc[q].pc = "idle"
  /\ FirstFree(p)
  /\ \/ /\ access = "anonymous"
        /\ proc' = [proc EXCEPT ![p] =
                      [Idle EXCEPT !.op = "repair",
                                   !.response = Response(401, "AUTH_REQUIRED", Null, Null)]]
     \/ /\ access = "member"
        /\ proc' = [proc EXCEPT ![p] =
                      [Idle EXCEPT !.op = "repair",
                                   !.response = Response(403, "MODERATOR_REQUIRED", Null, Null)]]
  /\ UNCHANGED <<eState, eCall, nowMs, devTimeOffsetSeconds, stateGeneration, userHash,
                 leaderboard, participants, challengeStats, todayCheckins, rateLimit,
                 challengeConfig, posts, opsLeft>>

\* const utcNow = await getUtcNow(subredditId).  The moderator's request is
\* made while no other is in flight.
RepairStart(p) ==
  /\ \A q \in Procs : proc[q].pc = "idle"
  /\ FirstFree(p)
  /\ proc' = [proc EXCEPT ![p] =
                [Idle EXCEPT !.pc = "repair_readStats",
                             !.op = "repair",
                             !.today = getTodayDayNumber]]
  /\ UNCHANGED <<eState, eCall, nowMs, devTimeOffsetSeconds, stateGeneration, userHash,
                 leaderboard, participants, challengeStats, todayCheckins, rateLimit,
                 challengeConfig, posts, opsLeft>>

\* getChallengeStats -> syncChallengeStatsCheckinsToday: hGetAll and parse
RepairReadStats(p) ==
  /\ proc[p].pc = "repair_readStats"
  /\ proc' = [proc EXCEPT
                ![p].stats = <<parseAggregateStatsRecord(challengeStats, proc[p].today)>>,
                ![p].pc = "repair_lenToday"]
  /\ UNCHANGED <<eState, eCall, nowMs, devTimeOffsetSeconds, stateGeneration, userHash,
                 leaderboard, participants, challengeStats, todayCheckins, rateLimit,
                 challengeConfig, posts, opsLeft>>

\* syncChallengeStatsCheckinsToday: hLen of the day's set
RepairLenToday(p) ==
  /\ proc[p].pc = "repair_lenToday"
  /\ proc' = [proc EXCEPT ![p].size = todaySetSizeOf(proc[p].today),
                          ![p].pc = "repair_syncStats"]
  /\ UNCHANGED <<eState, eCall, nowMs, devTimeOffsetSeconds, stateGeneration, userHash,
                 leaderboard, participants, challengeStats, todayCheckins, rateLimit,
                 challengeConfig, posts, opsLeft>>

\* syncChallengeStatsCheckinsToday: hSet of the synced record;
\* const oldStats = await getChallengeStats(subredditId, day)
RepairSyncStats(p) ==
  /\ proc[p].pc = "repair_syncStats"
  /\ LET synced == syncedStats(proc[p].stats[1], proc[p].today, proc[p].size)
     IN  /\ challengeStats' = serializeAggregateStatsRecord(synced)
         /\ proc' = [proc EXCEPT ![p].oldStats = <<synced>>,
                                 ![p].pc = "repair_countToday"]
  /\ UNCHANGED <<eState, eCall, nowMs, devTimeOffsetSeconds, stateGeneration, userHash,
                 leaderboard, participants, todayCheckins, rateLimit,
                 challengeConfig, posts, opsLeft>>

\* const todaySetSize = await getTodayCheckinsCount(subredditId, day)
RepairCountToday(p) ==
  /\ proc[p].pc = "repair_countToday"
  /\ proc' = [proc EXCEPT ![p].size = todaySetSizeOf(proc[p].today),
                          ![p].pc = "repair_writeStats"]
  /\ UNCHANGED <<eState, eCall, nowMs, devTimeOffsetSeconds, stateGeneration, userHash,
                 leaderboard, participants, challengeStats, todayCheckins, rateLimit,
                 challengeConfig, posts, opsLeft>>

\* repairTodayStats writing the set's size + 1
RepairWriteStats_offByOne(p) ==
  /\ proc[p].pc = "repair_writeStats"
  /\ LET repaired == [proc[p].oldStats[1] EXCEPT !.lastStatsDay = proc[p].today,
                                                 !.checkinsToday = proc[p].size + 1]
     IN  /\ challengeStats' = serializeAggregateStatsRecord(repaired)
         /\ proc' = [proc EXCEPT ![p].newStats = <<repaired>>,
                                 ![p].pc = "repair_prune"]
  /\ UNCHANGED <<eState, eCall, nowMs, devTimeOffsetSeconds, stateGeneration, userHash,
                 leaderboard, participants, todayCheckins, rateLimit,
                 challengeConfig, posts, opsLeft>>

\* const repaired = { ...oldStats, lastStatsDay: day, checkinsToday: todaySetSize };
\* hSet of the serialized record
RepairWriteStats(p) ==
  /\ proc[p].pc = "repair_writeStats"
  /\ LET repaired == [proc[p].oldStats[1] EXCEPT !.lastStatsDay = proc[p].today,
                                                 !.checkinsToday = proc[p].size]
     IN  /\ challengeStats' = serializeAggregateStatsRecord(repaired)
         /\ proc' = [proc EXCEPT ![p].newStats = <<repaired>>,
                                 ![p].pc = "repair_prune"]
  /\ UNCHANGED <<eState, eCall, nowMs, devTimeOffsetSeconds, stateGeneration, userHash,
                 leaderboard, participants, todayCheckins, rateLimit,
                 challengeConfig, posts, opsLeft>>

\* await pruneExpiredTodaySet(subredditId, day); return { oldStats, newStats,
\* todaySetSize }.  A failed delete is swallowed.
RepairPrune(p) ==
  /\ proc[p].pc = "repair_prune"
  /\ \/ todayCheckins' =
          {entry \in todayCheckins : <<entry[1]>> # expiredDayOf(proc[p].today)}
     \/ expiredDayOf(proc[p].today) # Null /\ todayCheckins' = todayCheckins
  /\ RespondRepair(p, proc[p].oldStats[1], proc[p].newStats[1], proc[p].size)
  /\ UNCHANGED <<eState, eCall, nowMs, devTimeOffsetSeconds, stateGeneration, userHash,
                 leaderboard, participants, challengeStats, rateLimit,
                 challengeConfig, posts, opsLeft>>

RepairStep(p) ==
  \/ \E access \in {"anonymous", "member"} : RepairRefused(p, access)
  \/ RepairStart(p)
  \/ RepairReadStats(p)
  \/ RepairLenToday(p)
  \/ RepairSyncStats(p)
  \/ RepairCountToday(p)
  \/ RepairWriteStats(p)
  \/ RepairPrune(p)

(***************************************************************************)
(* Repair specification: check-ins and resets of joined users interleave   *)
(* and days pass; the stats are repaired whenever none of them is in       *)
(* flight, and none starts while they are being repaired.                  *)
(***************************************************************************)
\* A repairTodayStats call is in flight.
Repairing == \E p \in Procs : proc[p].op = "repair" /\ proc[p].pc # "idle"

RepairNext ==
  \/ \E p \in Procs : ~Repairing /\ CheckinStep(p)
  \/ \E p \in Procs : ~Repairing /\ ResetStep(p)
  \/ ~Repairing /\ Tick
  \/ \E p \in Procs : RepairStep(p)

RepairSpec == JoinedInit /\ [][RepairNext]_vars

(***************************************************************************)
(* C32: after repair(community, day) completes, the stored checkinsToday   *)
(* equals the current size of the day-membership set for that day and      *)
(* lastStatsDay equals day, whatever value the counter held before, while  *)
(* participantsTotal, checkinsAllTime and longestStreakAllTime are left    *)
(* unchanged.  The all-time fields are compared with the record the repair *)
(* found in the store (an absent record counting as zeros).                *)
(***************************************************************************)
C32_RepairForcesCheckinsToday ==
  [][\A p \in Procs :
       /\ ( /\ proc[p].pc = "repair_prune"
            /\ proc'[p].pc = "idle" )
          => /\ challengeStats' # <<>>
             /\ challengeStats'[1].checkinsToday = todaySetSizeOf(proc[p].today)
             /\ challengeStats'[1].lastStatsDay = proc[p].today
             /\ challengeStats'[1].participantsTotal = proc[p].stats[1].participantsTotal
             /\ challengeStats'[1].checkinsAllTime = proc[p].stats[1].checkinsAllTime
             /\ challengeStats'[1].longestStreakAllTime =
                  proc[p].stats[1].longestStreakAllTime
       /\ ( /\ proc[p].pc = "repair_readStats"
            /\ proc'[p].pc = "repair_lenToday"
            /\ challengeStats # <<>> )
          => /\ proc'[p].stats[1].participantsTotal = challengeStats[1].participantsTotal
             /\ proc'[p].stats[1].checkinsAllTime = challengeStats[1].checkinsAllTime
             /\ proc'[p].stats[1].longestStreakAllTime =
                  challengeStats[1].longestStreakAllTime
  ]_vars

\* A repair has completed on a counter that had drifted: the stored record
\* of the day said 1 where the day's set holds 2 users.
C32_Witness ==
  \E p \in Procs :
    /\ proc[p].op = "repair"
    /\ proc[p].pc = "idle"
    /\ proc[p].response # Null
    /\ proc[p].response[1].status = 200
    /\ todaySetSizeOf(proc[p].today) = 2
    /\ challengeStats[1].checkinsToday = 2
    /\ challengeStats[1].checkinsAllTime = 1

(***************************************************************************)
(* C33: repair returns before/after values for audit: the reported before  *)
(* value is the checkinsToday counter as it was stored before the repair   *)
(* call (so a drifted counter is reported as drifted), and the reported    *)
(* after value is the membership-set size written by the repair.  The      *)
(* before value is fixed where oldStats is assigned; it is compared with   *)
(* a stored record of the repair's own day.                                *)
(***************************************************************************)
C33_RepairReportsStoredCounter ==
  [][\A p \in Procs :
       /\ ( /\ proc[p].pc = "repair_syncStats"
            /\ proc'[p].pc = "repair_countToday"
            /\ challengeStats # <<>>
            /\ challengeStats[1].lastStatsDay = proc[p].today )
          => proc'[p].oldStats[1].checkinsToday = challengeStats[1].checkinsToday
       /\ ( /\ proc[p].pc = "repair_prune"
            /\ proc'[p].pc = "idle" )
          => /\ proc'[p].oldStats = proc[p].oldStats
             /\ proc'[p].newStats[1].checkinsToday = todaySetSizeOf(proc[p].today)
             /\ proc'[p].newStats = challengeStats'
  ]_vars

(***************************************************************************)
(* Retry specification: recordCheckIn is interrupted by a failing store    *)
(* call after it has written the UserState; requests run one at a time.    *)
(***************************************************************************)
\* The store calls of recordCheckIn between the UserState write and the
\* stats write, by the handler's position
AfterUserWrite ==
  {"record_syncLeaderboard", "record_addToday", "record_lenToday",
   "record_readStats", "record_writeStats"}

\* The store call about to be made rejects: recordCheckIn throws, the
\* route's catch answers 401 CHECKIN_FAILED; the writes made so far stay.
RecordFails(p) ==
  /\ proc[p].pc \in AfterUserWrite
  /\ Respond(p, 401, "CHECKIN_FAILED", Null, Null)
  /\ UNCHANGED <<eState, eCall, nowMs, devTimeOffsetSeconds, stateGeneration, userHash,
                 leaderboard, participants, challengeStats, todayCheckins, opsLeft,
                 rateLimit, challengeConfig, posts>>

RetryNext ==
  \/ CheckinStep(1)
  \/ RecordFails(1)
  \/ Tick

RetrySpec == JoinedInit /\ [][RetryNext]_vars

(***************************************************************************)
(* C34: a check-in is safely retryable after a persistence failure: if     *)
(* recordCheckIn is interrupted after the UserState write but before the   *)
(* day-membership add or the stats write, retrying the same check-in (same *)
(* user, same day) completes, and afterwards the day-membership set        *)
(* contains the user and the counters credit that check-in.  Stated at the *)
(* route's gate of the retry, which must let it through, and at its        *)
(* response.                                                               *)
(***************************************************************************)
C34_InterruptedCheckInIsRetryable ==
  [][\A p \in Procs :
       LET u == proc[p].user
           today == proc[p].today
           interrupted == /\ getUserStateOf(u) # Null
                          /\ getUserStateOf(u)[1].lastCheckinDayUTC = <<today>>
                          /\ <<today, u>> \notin todayCheckins
       IN  /\ ( /\ proc[p].pc = "checkin_readUser"
                /\ proc'[p] # proc[p]
                /\ interrupted )
              => proc'[p].pc = "record_getGeneration"
           /\ ( /\ proc[p].op = "checkin"
                /\ proc[p].pc = "record_prune"
                /\ proc'[p].pc = "idle" )
              => /\ <<today, u>> \in todayCheckins'
                 /\ challengeStats'[1].checkinsToday = todaySetSizeOf(today)
                 /\ challengeStats'[1].checkinsAllTime >= 1
  ]_vars

(***************************************************************************)
(* Pruning specification: recordCheckIn and repairTodayStats called, one   *)
(* call at a time, for days a month after the days whose membership sets   *)
(* are in the store                                                        *)
(***************************************************************************)
\* Calls per behaviour.
MaxPruneCalls == 2

\* The days of the calls: the first days on which a set of FirstDays is
\* the expired one, FirstPruneDay .. FirstPruneDay + 2.
FirstPruneDay == TODAY_SET_RETENTION_DAYS + 2

PruneDays == FirstPruneDay..(FirstPruneDay + 2)

\* The user's state after check-ins on day and day + 1
stateAfterTwoDays(day) ==
  applyCheckInWithMetadata(
    applyCheckInWithMetadata(initialState(StartMs, "public"), day).state,
    day + 1).state

\* The store after t2_a checked in on days 1 and 2 and t2_b on days 2 and 3
PruneInit ==
  /\ nowMs = StartMs
  /\ devTimeOffsetSeconds = 0
  /\ stateGeneration = 0
  /\ userHash = [u \in Users |->
                   <<serializeUserState(
                       stateAfterTwoDays(IF u = "t2_a" THEN 1 ELSE 2), 0)>>]
  /\ leaderboard = [u \in Users |-> <<2>>]
  /\ participants = Users
  /\ challengeStats =
       serializeAggregateStatsRecord(
         [ lastStatsDay         |-> 3,
           participantsTotal    |-> 2,
           checkinsToday        |-> 1,
           checkinsAllTime      |-> 4,
           longestStreakAllTime |-> 2 ])
  /\ todayCheckins = {<<1, "t2_a">>, <<2, "t2_a">>, <<2, "t2_b">>, <<3, "t2_b">>}
  /\ rateLimit = NoAttempts
  /\ challengeConfig = <<>>
  /\ posts = <<>>
  /\ proc = [p \in Procs |-> Idle]
  /\ opsLeft = MaxPruneCalls
  /\ eState = initialState(0, "public")
  /\ eCall = plainCall("join")

\* recordCheckIn(subredditId, userId, day)
RecordCheckIn(p, userId, day) ==
  /\ Begin(p, "checkin", userId, "none", day, "record_getGeneration")
  /\ UNCHANGED <<eState, eCall, nowMs, devTimeOffsetSeconds, stateGeneration, userHash,
                 leaderboard, participants, challengeStats, todayCheckins, rateLimit,
                 challengeConfig, posts>>

\* repairTodayStats(subredditId, day)
RepairTodayStats(p, day) ==
  /\ Begin(p, "repair", "none", "none", day, "repair_readStats")
  /\ UNCHANGED <<eState, eCall, nowMs, devTimeOffsetSeconds, stateGeneration, userHash,
                 leaderboard, participants, challengeStats, todayCheckins, rateLimit,
                 challengeConfig, posts>>

PruneNext ==
  \/ \E userId \in Users, day \in PruneDays : RecordCheckIn(1, userId, day)
  \/ RecordGetGeneration(1)
  \/ RecordReadUser(1)
  \/ RecordSetGeneration(1)
  \/ RecordWriteUser(1)
  \/ RecordSyncLeaderboard(1)
  \/ RecordAddToday(1)
  \/ RecordLenToday(1)
  \/ RecordReadStats(1)
  \/ RecordWriteStats(1)
  \/ RecordPrune(1)
  \/ \E day \in PruneDays : RepairTodayStats(1, day)
  \/ RepairReadStats(1)
  \/ RepairLenToday(1)
  \/ RepairSyncStats(1)
  \/ RepairCountToday(1)
  \/ RepairWriteStats(1)
  \/ RepairPrune(1)

PruneSpec == PruneInit /\ [][PruneNext]_vars

(***************************************************************************)
(* C35: retention pruning is best effort and never fails the primary       *)
(* operation: when deleting the expired day-membership set fails,          *)
(* recordCheckIn and repair still complete with their normal result and    *)
(* all their other writes applied; pruning only ever targets day           *)
(* today - 31, so it never removes the membership set of the current day   *)
(* or of any of the 30 trailing days.                                      *)
(***************************************************************************)
C35_PruningIsBestEffort ==
  [][\A p \in Procs :
       ( /\ proc[p].pc \in {"record_prune", "repair_prune"}
         /\ proc'[p] # proc[p] )
       => LET today == proc[p].today
          IN  /\ proc'[p].pc = "idle"
              /\ proc'[p].response[1].status = 200
              /\ proc[p].op = "checkin" =>
                   /\ proc'[p].response[1].state = proc[p].result
                   /\ getUserStateOf(proc[p].user) = proc[p].result
                   /\ <<today, proc[p].user>> \in todayCheckins'
              /\ proc[p].op = "repair" =>
                   /\ proc'[p].newStats = challengeStats
                   /\ proc'[p].oldStats = proc[p].oldStats
              /\ challengeStats'[1].checkinsToday = todaySetSizeOf(today)
              /\ challengeStats'[1].lastStatsDay = today
              /\ userHash' = userHash
              /\ leaderboard' = leaderboard
              /\ challengeStats' = challengeStats
              /\ todayCheckins' \subseteq todayCheckins
              /\ \A entry \in todayCheckins \ todayCheckins' : entry[1] = today - 31
              /\ \A entry \in todayCheckins :
                   (today - 30 <= entry[1] /\ entry[1] <= today)
                     => entry \in todayCheckins'
  ]_vars

\* A check-in of day 33 has completed although the delete of the set of
\* day 2 failed (the set is still there), after an earlier call on day 32
\* deleted the set of day 1; the sets of days 3 and 33 are in the store.
C35_Witness ==
  /\ proc[1].op = "checkin"
  /\ proc[1].pc = "idle"
  /\ proc[1].response # Null
  /\ proc[1].response[1].status = 200
  /\ proc[1].response[1].state[1].lastCheckinDayUTC = <<33>>
  /\ todaySetSizeOf(1) = 0
  /\ todaySetSizeOf(2) = 2
  /\ todaySetSizeOf(3) = 1
  /\ todaySetSizeOf(33) = 1
  /\ challengeStats[1].lastStatsDay = 33

(***************************************************************************)
(* C36: a completed privacy change is not undone by a concurrent check-in  *)
(* of the same user: under every interleaving of setPrivacy(user, private) *)
(* with recordCheckIn(user, day), once both have completed the stored      *)
(* privacy is private, the user is not in the leaderboard index, and the   *)
(* stored streak fields are those produced by the check-in.  Stated for    *)
(* the two requests being the only ones made since the users joined.       *)
(***************************************************************************)
C36_PrivacySurvivesCheckIn ==
  \A p, q \in Procs :
    ( /\ Quiet
      /\ stateGeneration = 0
      /\ opsLeft = MaxJoinedOps - 2
      /\ proc[p].op = "setPrivacy"
      /\ proc[q].op = "checkin"
      /\ proc[p].user = proc[q].user
      /\ proc[p].response # Null
      /\ proc[p].response[1].status = 200
      /\ proc[p].response[1].state[1].privacy = "private"
      /\ proc[q].response # Null
      /\ proc[q].response[1].status = 200 )
    => LET stored == getUserStateOf(proc[p].user)
           checkedIn == proc[q].response[1].state[1]
       IN  /\ stored # Null
           /\ stored[1].privacy = "private"
           /\ leaderboard[proc[p].user] = <<>>
           /\ stored[1].currentStreak = checkedIn.currentStreak
           /\ stored[1].bestStreak = checkedIn.bestStreak
           /\ stored[1].streakStartDayUTC = checkedIn.streakStartDayUTC
           /\ stored[1].lastCheckinDayUTC = checkedIn.lastCheckinDayUTC
           /\ stored[1].freezeTokens = checkedIn.freezeTokens
           /\ stored[1].freezeSaves = checkedIn.freezeSaves
           /\ stored[1].badges = checkedIn.badges

(***************************************************************************)
(* C37: in every UserState reachable from join, the badges list is exactly *)
(* the list of milestone badges whose streak threshold (7, 30, 90, 180,    *)
(* 365) is <= bestStreak, in ascending threshold order, so the earned      *)
(* order coincides with the milestone order that deserialization           *)
(* re-imposes.                                                             *)
(***************************************************************************)
C37_BadgesAreMilestonesUpToBest ==
  LET reached(milestone) == milestone.streak <= eState.bestStreak
      expected == SelectSeq(BADGE_MILESTONES, reached)
  IN  /\ Len(eState.badges) = Len(expected)
      /\ \A i \in 1..Len(expected) : eState.badges[i] = expected[i].badge
      /\ parseBadges(eState.badges) = eState.badges

\* The second milestone has been reached.
C37_Witness ==
  /\ eState.bestStreak >= 30
  /\ eState.currentStreak < 30
  /\ eState.badges = <<"Committed", "Consistent">>

(***************************************************************************)
(* C38: in every UserState reachable from join with currentStreak > 0, the *)
(* calendar span of the streak is consistent with its length:              *)
(* 0 <= (lastCheckinDayUTC - streakStartDayUTC + 1) - currentStreak        *)
(* <= freezeSaves, the difference being the number of freeze-covered days  *)
(* inside the current streak; and freezeTokens + freezeSaves > 0 implies   *)
(* bestStreak >= 7.                                                        *)
(***************************************************************************)
C38_StreakSpanMatchesLength ==
  /\ eState.currentStreak > 0 =>
       /\ eState.lastCheckinDayUTC # Null
       /\ eState.streakStartDayUTC # Null
       /\ LET span == eState.lastCheckinDayUTC[1] - eState.streakStartDayUTC[1] + 1
          IN  /\ 0 <= span - eState.currentStreak
              /\ span - eState.currentStreak <= eState.freezeSaves
  /\ eState.freezeTokens + eState.freezeSaves > 0 => eState.bestStreak >= 7

\* A streak that holds a freeze-covered day: 9 calendar days, 8 check-ins.
C38_Witness ==
  /\ eState.currentStreak = 8
  /\ eState.freezeSaves = 1
  /\ eState.lastCheckinDayUTC # Null
  /\ eState.streakStartDayUTC # Null
  /\ eState.lastCheckinDayUTC[1] - eState.streakStartDayUTC[1] + 1 = 9

(***************************************************************************)
(* One-at-a-time specification with the repair: every handler, each        *)
(* request running to its response before the next one starts              *)
(***************************************************************************)
SeqRepairNext ==
  \/ SeqNext
  \/ RepairStep(1)

SeqRepairSpec == SeqInit /\ [][SeqRepairNext]_vars

\* longestStreakAllTime as a read of the stats hash parses it
longestStored ==
  IF challengeStats = <<>>
  THEN 0
  ELSE parseNonNegativeInt(challengeStats[1].longestStreakAllTime)

(***************************************************************************)
(* C39: after any sequence of joins, check-ins, privacy changes, stats     *)
(* reads, repairs and resets executed one at a time, longestStreakAllTime  *)
(* is at least the bestStreak of every user with a visible UserState, and  *)
(* it never decreases within a generation (on no step of a request other   *)
(* than a reset).                                                          *)
(***************************************************************************)
C39_LongestStreakCoversEveryUser ==
  [][/\ Quiet' =>
          \A u \in Users :
            getUserStateOf(u)' # Null => longestStored' >= getUserStateOf(u)'[1].bestStreak
     /\ ( \A p \in Procs : proc[p].op # "reset" /\ proc'[p].op # "reset" )
          => longestStored' >= longestStored
  ]_vars

\* A user has a best streak of 2 and a repair has just completed.
C39_Witness ==
  /\ Quiet
  /\ proc[1].op = "repair"
  /\ proc[1].response # Null
  /\ proc[1].response[1].status = 200
  /\ longestStored = 2
  /\ \E u \in Users :
       /\ getUserStateOf(u) # Null
       /\ getUserStateOf(u)[1].bestStreak = 2

(***************************************************************************)
(* Persistence specification: the user's state is written to the hash and  *)
(* read back between operations, as setUserState and getUserState do; the  *)
(* effective day of a check-in is any day the clock offset (any integer    *)
(* number of seconds) can produce, days before day 0 included.             *)
(***************************************************************************)
\* Effective days of the check-ins: FirstPersistDay..MaxPersistDay.
MaxPersistDay == 5

\* Days before day 0 that the development time offset is taken to reach.
MaxDaysBeforeEpoch == 2

FirstPersistDay == 0 - MaxDaysBeforeEpoch

PersistDays == FirstPersistDay..MaxPersistDay

\* Generations the hash is written and read under: 0..MaxGeneration.
MaxGeneration == 2

Generations == 0..MaxGeneration

\* setUserState then getUserState: what was written and what each
\* generation reads back
persistCall(state, generation) ==
  [ op         |-> "persist",
    state      |-> state,
    generation |-> generation,
    reloaded   |-> [g \in Generations |->
                      deserializeUserState(<<serializeUserState(state, generation)>>, g)] ]

PersistInit ==
  /\ StoreInit
  /\ opsLeft = 0
  /\ \E privacy \in Privacy, g \in Generations :
       /\ eState = initialState(StartMs, privacy)
       /\ eCall = persistCall(initialState(StartMs, privacy), g)

\* recordCheckIn: getUserState, applyCheckInWithMetadata, setUserState.
\* The state read is the one the hash gives back.
PersistCheckIn(day) ==
  LET existing == eCall.reloaded[eCall.generation]
      result == applyCheckInWithMetadata(existing[1], day)
  IN  /\ existing # Null
      /\ ~result.threw
      /\ eState' = result.state
      /\ eCall' = persistCall(result.state, eCall.generation)
      /\ UNCHANGED storeVars

\* setPrivacy: getUserState, { ...existing, privacy }, setUserState
PersistSetPrivacy(privacy) ==
  LET existing == eCall.reloaded[eCall.generation]
  IN  /\ existing # Null
      /\ existing[1].privacy # privacy
      /\ eState' = [existing[1] EXCEPT !.privacy = privacy]
      /\ eCall' = persistCall([existing[1] EXCEPT !.privacy = privacy], eCall.generation)
      /\ UNCHANGED storeVars

PersistNext ==
  \/ \E day \in PersistDays : PersistCheckIn(day)
  \/ \E privacy \in Privacy : PersistSetPrivacy(privacy)

PersistSpec == PersistInit /\ [][PersistNext]_vars

(***************************************************************************)
(* C40: persisting and reloading a UserState is lossless: for every        *)
(* UserState reachable from join (including day number 0 and streak 0) and *)
(* every generation g, deserializing the serialized record under           *)
(* generation g returns an equal state, and deserializing it under any     *)
(* other generation returns absent.                                        *)
(***************************************************************************)
C40_PersistAndReloadIsLossless ==
  eCall.op = "persist" =>
    \A g \in Generations :
      eCall.reloaded[g] = IF g = eCall.generation THEN <<eCall.state>> ELSE Null

====
